---- MODULE Spec2Model ----
(***************************************************************************)
(* The Firebase channel plugin of openclaw: the webhook gateway            *)
(* (handleFirebaseWebhookRequest, readJsonBody), the background task       *)
(* (processMessage, in its two versions: the direct LLM-proxy version of   *)
(* src/extensions/firebase/src/respond.ts and the agent-dispatcher version *)
(* of src/unnamed/part_004), the streaming client (callLlmProxy) and the   *)
(* delivery client (sendResponse).                                         *)
(*                                                                         *)
(* A string is a sequence of one-character strings, so that substring      *)
(* search, case folding and concatenation are computed.  A JSON text (a    *)
(* request body, a response body, an event-stream line) is a sequence of   *)
(* lexical tokens <<kind, text>>; one token is one unit of length, and     *)
(* JSON.parse is a recursive-descent parser over the tokens.               *)
(***************************************************************************)
EXTENDS Integers, Sequences, FiniteSets, TLC

(***************************************************************************)
(* Strings                                                                 *)
(***************************************************************************)

\* The alphabets of toLowerCase and of decimal conversion.
UpperCase ==
    <<"A", "B", "C", "D", "E", "F", "G", "H", "I", "J", "K", "L", "M", "N",
      "O", "P", "Q", "R", "S", "T", "U", "V", "W", "X", "Y", "Z">>
LowerCase ==
    <<"a", "b", "c", "d", "e", "f", "g", "h", "i", "j", "k", "l", "m", "n",
      "o", "p", "q", "r", "s", "t", "u", "v", "w", "x", "y", "z">>
DecimalDigits ==
    <<"0", "1", "2", "3", "4", "5", "6", "7", "8", "9">>

\* The billing keywords (respond.ts 56-60).
Kw402 ==
    <<"4", "0", "2">>
KwInsufficientCredits ==
    <<"i", "n", "s", "u", "f", "f", "i", "c", "i", "e", "n", "t", " ", "c",
      "r", "e", "d", "i", "t", "s">>
KwInsufficientCreditsU ==
    <<"i", "n", "s", "u", "f", "f", "i", "c", "i", "e", "n", "t", "_", "c",
      "r", "e", "d", "i", "t", "s">>
KwBilling ==
    <<"b", "i", "l", "l", "i", "n", "g">>
KwPaymentRequired ==
    <<"p", "a", "y", "m", "e", "n", "t", " ", "r", "e", "q", "u", "i", "r",
      "e", "d">>

\* String literals of the program.
FailedToSendPrefix ==
    <<"F", "a", "i", "l", "e", "d", " ", "t", "o", " ", "s", "e", "n", "d",
      " ", "r", "e", "s", "p", "o", "n", "s", "e", " ", "t", "o", " ", "A",
      "p", "p", " ", "S", "e", "r", "v", "e", "r", ":", " ">>
UnexpectedStatusPrefix ==
    <<"U", "n", "e", "x", "p", "e", "c", "t", "e", "d", " ", "r", "e", "s",
      "p", "o", "n", "s", "e", " ", "s", "t", "a", "t", "u", "s", ":", " ">>
LlmRequestFailedPrefix ==
    <<"L", "L", "M", " ", "r", "e", "q", "u", "e", "s", "t", " ", "f", "a",
      "i", "l", "e", "d", ":", " ">>
UnknownErrorText ==
    <<"u", "n", "k", "n", "o", "w", "n", " ", "e", "r", "r", "o", "r">>
DashSep ==
    <<" ", "-", " ">>
NoResponseBody ==
    <<"N", "o", " ", "r", "e", "s", "p", "o", "n", "s", "e", " ", "b", "o",
      "d", "y">>
BearerPrefix ==
    <<"B", "e", "a", "r", "e", "r", " ">>
ErrServerMisconfigured ==
    <<"S", "e", "r", "v", "e", "r", " ", "m", "i", "s", "c", "o", "n", "f",
      "i", "g", "u", "r", "e", "d">>
ErrNotFound ==
    <<"N", "o", "t", " ", "f", "o", "u", "n", "d">>
ErrInternal ==
    <<"I", "n", "t", "e", "r", "n", "a", "l", " ", "s", "e", "r", "v", "e", "r",
      " ", "e", "r", "r", "o", "r">>
ErrUnauthorized ==
    <<"U", "n", "a", "u", "t", "h", "o", "r", "i", "z", "e", "d">>
ErrPayloadTooLarge ==
    <<"p", "a", "y", "l", "o", "a", "d", " ", "t", "o", "o", " ", "l", "a",
      "r", "g", "e">>
ErrEmptyPayload ==
    <<"e", "m", "p", "t", "y", " ", "p", "a", "y", "l", "o", "a", "d">>
ErrMessageId ==
    <<"M", "i", "s", "s", "i", "n", "g", " ", "o", "r", " ", "i", "n", "v",
      "a", "l", "i", "d", " ", "m", "e", "s", "s", "a", "g", "e", "I", "d">>
ErrText ==
    <<"M", "i", "s", "s", "i", "n", "g", " ", "o", "r", " ", "i", "n", "v",
      "a", "l", "i", "d", " ", "t", "e", "x", "t">>
StatusProcessing ==
    <<"p", "r", "o", "c", "e", "s", "s", "i", "n", "g">>
StatusOk ==
    <<"o", "k">>
StatusSaved ==
    <<"s", "a", "v", "e", "d">>
BillingContent ==
    <<"Y", "o", "u", "'", "v", "e", " ", "r", "u", "n", " ", "o", "u", "t",
      " ", "o", "f", " ", "c", "r", "e", "d", "i", "t", "s", "!", " ", "T",
      "a", "p", " ", "b", "e", "l", "o", "w", " ", "t", "o", " ", "p", "u",
      "r", "c", "h", "a", "s", "e", " ", "m", "o", "r", "e", ".">>
GenericContent ==
    <<"S", "o", "r", "r", "y", ",", " ", "s", "o", "m", "e", "t", "h", "i",
      "n", "g", " ", "w", "e", "n", "t", " ", "w", "r", "o", "n", "g", ".",
      " ", "P", "l", "e", "a", "s", "e", " ", "t", "r", "y", " ", "a", "g",
      "a", "i", "n", ".">>
UnavailableContent ==
    <<"S", "e", "r", "v", "i", "c", "e", " ", "t", "e", "m", "p", "o", "r",
      "a", "r", "i", "l", "y", " ", "u", "n", "a", "v", "a", "i", "l", "a",
      "b", "l", "e", ".", " ", "P", "l", "e", "a", "s", "e", " ", "t", "r",
      "y", " ", "a", "g", "a", "i", "n", ".">>
TypeContentBlockDelta ==
    <<"c", "o", "n", "t", "e", "n", "t", "_", "b", "l", "o", "c", "k", "_",
      "d", "e", "l", "t", "a">>
TypeMessageDelta ==
    <<"m", "e", "s", "s", "a", "g", "e", "_", "d", "e", "l", "t", "a">>
TypeMessageStart ==
    <<"m", "e", "s", "s", "a", "g", "e", "_", "s", "t", "a", "r", "t">>

\* Messages of the JavaScript runtime's own errors.
UndefinedText ==
    <<"u", "n", "d", "e", "f", "i", "n", "e", "d">>
SyntaxErrorEnd ==
    <<"U", "n", "e", "x", "p", "e", "c", "t", "e", "d", " ", "e", "n", "d",
      " ", "o", "f", " ", "J", "S", "O", "N", " ", "i", "n", "p", "u", "t">>
SyntaxErrorToken ==
    <<"U", "n", "e", "x", "p", "e", "c", "t", "e", "d", " ", "t", "o", "k",
      "e", "n", " ", "i", "n", " ", "J", "S", "O", "N">>
TypeErrorNull ==
    <<"C", "a", "n", "n", "o", "t", " ", "r", "e", "a", "d", " ", "p", "r",
      "o", "p", "e", "r", "t", "i", "e", "s", " ", "o", "f", " ", "n", "u",
      "l", "l">>
NotAFunction ==
    <<"e", "r", "r", "o", "r", "M", "e", "s", "s", "a", "g", "e", ".", "t",
      "o", "L", "o", "w", "e", "r", "C", "a", "s", "e", " ", "i", "s", " ",
      "n", "o", "t", " ", "a", " ", "f", "u", "n", "c", "t", "i", "o", "n">>

\* Member names.
KeyType ==
    <<"t", "y", "p", "e">>
KeyDelta ==
    <<"d", "e", "l", "t", "a">>
KeyText ==
    <<"t", "e", "x", "t">>
KeyUsage ==
    <<"u", "s", "a", "g", "e">>
KeyMessage ==
    <<"m", "e", "s", "s", "a", "g", "e">>
KeyChoices ==
    <<"c", "h", "o", "i", "c", "e", "s">>
KeyContent ==
    <<"c", "o", "n", "t", "e", "n", "t">>
KeyInputTokens ==
    <<"i", "n", "p", "u", "t", "_", "t", "o", "k", "e", "n", "s">>
KeyOutputTokens ==
    <<"o", "u", "t", "p", "u", "t", "_", "t", "o", "k", "e", "n", "s">>
KeyPromptTokens ==
    <<"p", "r", "o", "m", "p", "t", "_", "t", "o", "k", "e", "n", "s">>
KeyCompletionTokens ==
    <<"c", "o", "m", "p", "l", "e", "t", "i", "o", "n", "_", "t", "o", "k",
      "e", "n", "s">>
KeyError ==
    <<"e", "r", "r", "o", "r">>
KeyStatus ==
    <<"s", "t", "a", "t", "u", "s">>
KeyMessageId ==
    <<"m", "e", "s", "s", "a", "g", "e", "I", "d">>
KeyConversationHistory ==
    <<"c", "o", "n", "v", "e", "r", "s", "a", "t", "i", "o", "n", "H", "i",
      "s", "t", "o", "r", "y">>
KeyRole ==
    <<"r", "o", "l", "e">>
KeyZero ==
    <<"0">>


IndexIn(alphabet, c) ==
    IF \E i \in 1..Len(alphabet) : alphabet[i] = c
    THEN CHOOSE i \in 1..Len(alphabet) : alphabet[i] = c
    ELSE 0

\* String.prototype.toLowerCase()
ToLowerCase(s) ==
    [i \in 1..Len(s) |->
        IF IndexIn(UpperCase, s[i]) = 0 THEN s[i]
        ELSE LowerCase[IndexIn(UpperCase, s[i])]]

\* String.prototype.includes(needle)
Includes(s, needle) ==
    \E i \in 1..(Len(s) - Len(needle) + 1) :
        SubSeq(s, i, i + Len(needle) - 1) = needle

\* The decimal spelling of a natural number (template-literal conversion).
RECURSIVE DigitsOf(_)
DigitsOf(n) ==
    IF n < 10 THEN <<DecimalDigits[n + 1]>>
    ELSE Append(DigitsOf(n \div 10), DecimalDigits[(n % 10) + 1])

\* isBillingError(errorMessage): an undefined message is NoMessage.
NoMessage == <<"<undefined>">>

\* The classifier comparing without lower-casing the message.
isBillingErrorCaseSensitive(errorMessage) ==
    IF errorMessage = NoMessage \/ errorMessage = <<>> THEN FALSE
    ELSE \/ Includes(errorMessage, Kw402)
         \/ Includes(errorMessage, KwInsufficientCredits)
         \/ Includes(errorMessage, KwInsufficientCreditsU)
         \/ Includes(errorMessage, KwBilling)
         \/ Includes(errorMessage, KwPaymentRequired)

isBillingError(errorMessage) ==
    IF errorMessage = NoMessage \/ errorMessage = <<>> THEN FALSE
    ELSE LET lower == ToLowerCase(errorMessage) IN
         \/ Includes(lower, Kw402)
         \/ Includes(lower, KwInsufficientCredits)
         \/ Includes(lower, KwInsufficientCreditsU)
         \/ Includes(lower, KwBilling)
         \/ Includes(lower, KwPaymentRequired)

(***************************************************************************)
(* JSON text and JavaScript values                                         *)
(***************************************************************************)

\* Tokens.  kind: "p" punctuation, "w" whitespace, "s" string literal (text:
\* the string), "n" number literal (text: its spelling), "l" null or true,
\* "x" a character that belongs to no JSON token.
LBrace == <<"p", "{">>
RBrace == <<"p", "}">>
LBrack == <<"p", "[">>
RBrack == <<"p", "]">>
Colon == <<"p", ":">>
Comma == <<"p", ",">>
Space == <<"w", " ">>
Newline == <<"w", "\n">>
Str(s) == <<"s", s>>
Num(n) == <<"n", n>>
Null == <<"l", "null">>
True == <<"l", "true">>
Ch(c) == <<"x", c>>

\* JavaScript values, tagged by t; v holds the payload.
JsUndefined == [t |-> "undefined", v |-> <<>>]
JsNull == [t |-> "null", v |-> <<>>]
JsTrue == [t |-> "boolean", v |-> <<>>]
JsNumber(n) == [t |-> "number", v |-> n]
JsString(s) == [t |-> "string", v |-> s]
JsArray(elems) == [t |-> "array", v |-> elems]
JsObject(members) == [t |-> "object", v |-> members]

\* raw.trim() is the empty string: every token is whitespace.
TrimIsEmpty(raw) == \A i \in 1..Len(raw) : raw[i][1] = "w"

SkipWs(toks, i) ==
    IF \E j \in i..Len(toks) : toks[j][1] # "w"
    THEN CHOOSE j \in i..Len(toks) :
            /\ toks[j][1] # "w"
            /\ \A k \in i..(j - 1) : toks[k][1] = "w"
    ELSE Len(toks) + 1

ParseOk(val, next) == [ok |-> TRUE, val |-> val, next |-> next, err |-> <<>>]
ParseErr(msg) == [ok |-> FALSE, val |-> JsUndefined, next |-> 0, err |-> msg]

RECURSIVE ParseValue(_, _)
RECURSIVE ParseElements(_, _, _)
RECURSIVE ParseMembers(_, _, _)

\* After an element of an array, at token j: "]" closes it, "," continues.
ElementsNext(toks, acc, j) ==
    IF j > Len(toks) THEN ParseErr(SyntaxErrorEnd)
    ELSE IF toks[j] = RBrack THEN ParseOk(JsArray(acc), j + 1)
    ELSE IF toks[j] = Comma THEN ParseElements(toks, j + 1, acc)
    ELSE ParseErr(SyntaxErrorToken)

ElementParsed(toks, acc, r) ==
    IF ~r.ok THEN r
    ELSE ElementsNext(toks, Append(acc, r.val), SkipWs(toks, r.next))

\* The elements of an array from token i on, acc so far.
ParseElements(toks, i, acc) == ElementParsed(toks, acc, ParseValue(toks, i))

\* After a member of an object, at token j: "}" closes it, "," continues.
MembersNext(toks, acc, j) ==
    IF j > Len(toks) THEN ParseErr(SyntaxErrorEnd)
    ELSE IF toks[j] = RBrace THEN ParseOk(JsObject(acc), j + 1)
    ELSE IF toks[j] = Comma THEN ParseMembers(toks, j + 1, acc)
    ELSE ParseErr(SyntaxErrorToken)

MemberParsed(toks, acc, name, r) ==
    IF ~r.ok THEN r
    ELSE MembersNext(toks, Append(acc, <<name, r.val>>), SkipWs(toks, r.next))

\* The colon of the member named by token k, at token c.
MemberColon(toks, acc, k, c) ==
    IF c > Len(toks) THEN ParseErr(SyntaxErrorEnd)
    ELSE IF toks[c] # Colon THEN ParseErr(SyntaxErrorToken)
    ELSE MemberParsed(toks, acc, toks[k][2], ParseValue(toks, c + 1))

\* The name of a member, at token k.
MemberName(toks, acc, k) ==
    IF k > Len(toks) THEN ParseErr(SyntaxErrorEnd)
    ELSE IF toks[k][1] # "s" THEN ParseErr(SyntaxErrorToken)
    ELSE MemberColon(toks, acc, k, SkipWs(toks, k + 1))

\* The members of an object from token i on, acc so far.
ParseMembers(toks, i, acc) == MemberName(toks, acc, SkipWs(toks, i))

\* After "[", at token j.
ArrayBody(toks, j) ==
    IF j > Len(toks) THEN ParseErr(SyntaxErrorEnd)
    ELSE IF toks[j] = RBrack THEN ParseOk(JsArray(<<>>), j + 1)
    ELSE ParseElements(toks, j, <<>>)

\* After "{", at token j.
ObjectBody(toks, j) ==
    IF j > Len(toks) THEN ParseErr(SyntaxErrorEnd)
    ELSE IF toks[j] = RBrace THEN ParseOk(JsObject(<<>>), j + 1)
    ELSE ParseMembers(toks, j, <<>>)

\* A value starting at token i, which is no whitespace.
ValueAt(toks, i) ==
    IF i > Len(toks) THEN ParseErr(SyntaxErrorEnd)
    ELSE IF toks[i][1] = "s" THEN ParseOk(JsString(toks[i][2]), i + 1)
    ELSE IF toks[i][1] = "n" THEN ParseOk(JsNumber(toks[i][2]), i + 1)
    ELSE IF toks[i] = Null THEN ParseOk(JsNull, i + 1)
    ELSE IF toks[i] = True THEN ParseOk(JsTrue, i + 1)
    ELSE IF toks[i] = LBrack THEN ArrayBody(toks, SkipWs(toks, i + 1))
    ELSE IF toks[i] = LBrace THEN ObjectBody(toks, SkipWs(toks, i + 1))
    ELSE ParseErr(SyntaxErrorToken)

ParseValue(toks, i) == ValueAt(toks, SkipWs(toks, i))

\* The whole text must be one value.
WholeText(raw, r) ==
    IF ~r.ok THEN [ok |-> FALSE, value |-> JsUndefined, error |-> r.err]
    ELSE IF SkipWs(raw, r.next) <= Len(raw)
         THEN [ok |-> FALSE, value |-> JsUndefined, error |-> SyntaxErrorToken]
         ELSE [ok |-> TRUE, value |-> r.val, error |-> <<>>]

\* JSON.parse(raw): a value, or a SyntaxError carrying a message.
JsonParse(raw) == WholeText(raw, ParseValue(raw, 1))

\* Reading a property of null or undefined throws a TypeError.
PropThrows(val) == val.t \in {"null", "undefined"}

\* val.key, for val neither null nor undefined: the last member of that name
\* of an object; undefined for any other value (none of the keys read by the
\* plugin is a property of a number, string, boolean or array).
GetProp(val, key) ==
    IF val.t # "object" THEN JsUndefined
    ELSE LET hits == {i \in 1..Len(val.v) : val.v[i][1] = key} IN
         IF hits = {} THEN JsUndefined
         ELSE val.v[CHOOSE i \in hits : \A j \in hits : j <= i][2]

\* val?.key
OptProp(val, key) == IF PropThrows(val) THEN JsUndefined ELSE GetProp(val, key)

\* val?.[0]
OptFirst(val) ==
    IF val.t = "array" THEN (IF Len(val.v) > 0 THEN val.v[1] ELSE JsUndefined)
    ELSE IF val.t = "string" THEN
         (IF Len(val.v) > 0 THEN JsString(<<val.v[1]>>) ELSE JsUndefined)
    ELSE OptProp(val, KeyZero)

\* ToBoolean(val).  A number is falsy when it is spelled "0".
Truthy(val) ==
    CASE val.t \in {"undefined", "null"} -> FALSE
      [] val.t = "string" -> val.v # <<>>
      [] val.t = "number" -> val.v # <<"0">>
      [] OTHER -> TRUE

\* !x || typeof x !== "string"
NotNonEmptyString(val) == ~Truthy(val) \/ val.t # "string"

\* String(val), as done by += on a string and by template literals.
RECURSIVE JsToString(_)
RECURSIVE JoinElems(_, _)
JoinElems(elems, i) ==
    IF i > Len(elems) THEN <<>>
    ELSE (IF i > 1 THEN <<",">> ELSE <<>>)
         \o (IF PropThrows(elems[i]) THEN <<>> ELSE JsToString(elems[i]))
         \o JoinElems(elems, i + 1)
JsToString(val) ==
    CASE val.t = "string" -> val.v
      [] val.t = "number" -> val.v
      [] val.t = "undefined" -> UndefinedText
      [] val.t = "null" -> <<"n", "u", "l", "l">>
      [] val.t = "boolean" -> <<"t", "r", "u", "e">>
      [] val.t = "array" -> JoinElems(val.v, 1)
      [] OTHER -> <<"[", "o", "b", "j", "e", "c", "t", " ",
                    "O", "b", "j", "e", "c", "t", "]">>

(***************************************************************************)
(* callLlmProxy and parseSSEStream (llm-client.ts)                         *)
(***************************************************************************)

DataPrefix == <<Ch("d"), Ch("a"), Ch("t"), Ch("a"), Colon, Space>>
DoneLine == DataPrefix \o <<LBrack, Ch("D"), Ch("O"), Ch("N"), Ch("E"), RBrack>>

StartsWith(s, p) == Len(s) >= Len(p) /\ SubSeq(s, 1, Len(p)) = p
Slice(s, n) == SubSeq(s, n + 1, Len(s))

\* buffer.split("\n"): the pieces between consecutive newlines.
SplitLines(buf) ==
    LET breaks == {i \in 1..Len(buf) : buf[i] = Newline}
        \* the k-th newline; 0 before the first, Len(buf) + 1 after the last
        Break(k) ==
            IF k = 0 THEN 0
            ELSE IF k > Cardinality(breaks) THEN Len(buf) + 1
            ELSE CHOOSE i \in breaks : Cardinality({j \in breaks : j < i}) = k - 1
    IN  [k \in 1..(Cardinality(breaks) + 1) |->
            SubSeq(buf, Break(k - 1) + 1, Break(k) - 1)]

\* The results of callLlmProxy; threw marks an exception leaving parseSSEStream.
LlmOk(content, input, output) ==
    [ok |-> TRUE, threw |-> FALSE, content |-> content,
     hasUsage |-> (input.t # "undefined" \/ output.t # "undefined"),
     inputTokens |-> input, outputTokens |-> output,
     error |-> <<>>, isBillingError |-> FALSE, statusCode |-> 0]
LlmErr(msg, billing, status) ==
    [ok |-> FALSE, threw |-> FALSE, content |-> <<>>,
     hasUsage |-> FALSE, inputTokens |-> JsUndefined, outputTokens |-> JsUndefined,
     error |-> msg, isBillingError |-> billing, statusCode |-> status]
LlmThrew(msg) == [LlmErr(msg, FALSE, 0) EXCEPT !.threw = TRUE]

\* The parser's locals.
SseInit == [content |-> <<>>, inputTokens |-> JsUndefined,
            outputTokens |-> JsUndefined, buffer |-> <<>>]

\* data.delta?.text and data.choices?.[0]?.delta?.content
DeltaText(data) == OptProp(GetProp(data, KeyDelta), KeyText)
ChoiceContent(data) ==
    OptProp(OptProp(OptFirst(GetProp(data, KeyChoices)), KeyDelta), KeyContent)

\* The statements of the try block of one data line, in order
\* (llm-client.ts 140-169).
\* (first: the content_block_delta statement putting its fragment in front)
BlockDeltaPrepends(st, data) ==
    IF GetProp(data, KeyType) = JsString(TypeContentBlockDelta) /\ Truthy(DeltaText(data))
    THEN [st EXCEPT !.content = JsToString(DeltaText(data)) \o @] ELSE st
BlockDelta(st, data) ==
    IF GetProp(data, KeyType) = JsString(TypeContentBlockDelta) /\ Truthy(DeltaText(data))
    THEN [st EXCEPT !.content = @ \o JsToString(DeltaText(data))] ELSE st
SimpleDelta(st, data) ==
    IF Truthy(DeltaText(data)) /\ ~Truthy(GetProp(data, KeyType))
    THEN [st EXCEPT !.content = @ \o JsToString(DeltaText(data))] ELSE st
MessageDeltaUsage(st, data) ==
    IF GetProp(data, KeyType) = JsString(TypeMessageDelta) /\ Truthy(GetProp(data, KeyUsage))
    THEN [st EXCEPT !.outputTokens = GetProp(GetProp(data, KeyUsage), KeyOutputTokens)]
    ELSE st
MessageStartUsage(st, data) ==
    IF /\ GetProp(data, KeyType) = JsString(TypeMessageStart)
       /\ Truthy(OptProp(GetProp(data, KeyMessage), KeyUsage))
    THEN [st EXCEPT !.inputTokens =
              GetProp(OptProp(GetProp(data, KeyMessage), KeyUsage), KeyInputTokens)]
    ELSE st
\* The frame statements without the one for choices[0].delta.content.
ChoiceDeltaDropped(st, data) == st
ChoiceDelta(st, data) ==
    IF Truthy(ChoiceContent(data))
    THEN [st EXCEPT !.content = @ \o JsToString(ChoiceContent(data))] ELSE st
FinalUsage(st, data) ==
    IF Truthy(GetProp(data, KeyUsage))
    THEN [st EXCEPT !.inputTokens = GetProp(GetProp(data, KeyUsage), KeyPromptTokens),
                    !.outputTokens = GetProp(GetProp(data, KeyUsage), KeyCompletionTokens)]
    ELSE st

ApplyFrame(st, data) ==
    FinalUsage(
        ChoiceDelta(
            MessageStartUsage(
                MessageDeltaUsage(SimpleDelta(BlockDelta(st, data), data), data),
                data),
            data),
        data)

\* The try/catch around one parsed line: a parse error, or the TypeError of
\* reading a property of null, skips the line.
ApplyParsed(st, r) ==
    IF ~r.ok \/ PropThrows(r.value) THEN st ELSE ApplyFrame(st, r.value)

\* The loop interpreting lines without the prefix as well.
ProcessLineNoPrefixCheck(st, line) ==
    IF line = DoneLine THEN st
    ELSE ApplyParsed(st, JsonParse(IF StartsWith(line, DataPrefix)
                                   THEN Slice(line, 6) ELSE line))

\* One complete line of the for loop (llm-client.ts 133-173).
ProcessLine(st, line) ==
    IF ~StartsWith(line, DataPrefix) THEN st
    ELSE IF line = DoneLine THEN st
    ELSE ApplyParsed(st, JsonParse(Slice(line, 6)))

\* The lines i..n of lines, in order.
RECURSIVE ProcessLines(_, _, _, _)
ProcessLines(st, lines, i, n) ==
    IF i > n THEN st
    ELSE ProcessLines(ProcessLine(st, lines[i]), lines, i + 1, n)

\* The split that forgets the incomplete last line.
ProcessSplitNoCarry(st, lines) ==
    [ProcessLines(st, lines, 1, Len(lines) - 1) EXCEPT !.buffer = <<>>]

\* All lines but the last are complete; the last stays in the buffer.
ProcessSplit(st, lines) ==
    [ProcessLines(st, lines, 1, Len(lines) - 1) EXCEPT !.buffer = lines[Len(lines)]]

\* One iteration of the read loop (llm-client.ts 127-173).
ProcessChunk(st, chunk) == ProcessSplit(st, SplitLines(st.buffer \o chunk))

RECURSIVE ProcessChunks(_, _, _)
ProcessChunks(st, chunks, i) ==
    IF i > Len(chunks) THEN st
    ELSE ProcessChunks(ProcessChunk(st, chunks[i]), chunks, i + 1)

\* The statements applied to the remaining buffer (llm-client.ts 180-185).
TailDelta(st, data) ==
    IF Truthy(DeltaText(data))
    THEN [st EXCEPT !.content = @ \o JsToString(DeltaText(data))] ELSE st
TailChoice(st, data) ==
    IF Truthy(ChoiceContent(data))
    THEN [st EXCEPT !.content = @ \o JsToString(ChoiceContent(data))] ELSE st
TailParsed(st, r) ==
    IF ~r.ok \/ PropThrows(r.value) THEN st
    ELSE TailChoice(TailDelta(st, r.value), r.value)

\* The remaining buffer interpreted twice.
ProcessTailTwice(st) ==
    IF StartsWith(st.buffer, DataPrefix) /\ st.buffer # DoneLine
    THEN TailParsed(TailParsed(st, JsonParse(Slice(st.buffer, 6))),
                    JsonParse(Slice(st.buffer, 6)))
    ELSE st

\* The remaining buffer after the loop (llm-client.ts 176-189).
ProcessTail(st) ==
    IF StartsWith(st.buffer, DataPrefix) /\ st.buffer # DoneLine
    THEN TailParsed(st, JsonParse(Slice(st.buffer, 6)))
    ELSE st

\* A response of the generation backend:
\*   kind "reject": fetch rejects with msg;
\*   kind "http": status, errBody (the body tokens read by response.json() on
\*   a non-2xx status), hasBody, chunks (what reader.read() yields in order)
\*   and readError (the rejection of the read after the chunks, or NoMessage).
LlmReject(msg) ==
    [kind |-> "reject", msg |-> msg, status |-> 0, errBody |-> <<>>,
     hasBody |-> FALSE, chunks |-> <<>>, readError |-> NoMessage]
LlmHttpError(status, errBody) ==
    [kind |-> "http", msg |-> <<>>, status |-> status, errBody |-> errBody,
     hasBody |-> TRUE, chunks |-> <<>>, readError |-> NoMessage]
LlmStream(chunks, readError) ==
    [kind |-> "http", msg |-> <<>>, status |-> 200, errBody |-> <<>>,
     hasBody |-> TRUE, chunks |-> chunks, readError |-> readError]
LlmNoBody ==
    [kind |-> "http", msg |-> <<>>, status |-> 200, errBody |-> <<>>,
     hasBody |-> FALSE, chunks |-> <<>>, readError |-> NoMessage]

\* The return statement of parseSSEStream (llm-client.ts 191-198).
StreamResult(st) == LlmOk(st.content, st.inputTokens, st.outputTokens)

\* parseSSEStream returning what it has accumulated when a read fails.
parseSSEStreamKeepsPartial(response) ==
    IF ~response.hasBody THEN LlmErr(NoResponseBody, FALSE, 0)
    ELSE StreamResult(ProcessTail(ProcessChunks(SseInit, response.chunks, 1)))

parseSSEStream(response) ==
    IF ~response.hasBody THEN LlmErr(NoResponseBody, FALSE, 0)
    ELSE IF response.readError # NoMessage THEN LlmThrew(response.readError)
    ELSE StreamResult(ProcessTail(ProcessChunks(SseInit, response.chunks, 1)))

\* response.ok
HttpOk(status) == status >= 200 /\ status <= 299

\* `LLM request failed: ${response.status}`
LlmFallbackMessage(status) == JsString(LlmRequestFailedPrefix \o DigitsOf(status))

\* errorBody.error?.message when it is truthy, else the fallback.
MessageOr(m, fallback) == IF Truthy(m) THEN m ELSE fallback

\* The error message of a non-2xx response, errorBody parsed into r
\* (llm-client.ts 69-77): a body that does not parse, or is null, is ignored.
ErrorBodyMessage(r, fallback) ==
    IF ~r.ok \/ PropThrows(r.value) THEN fallback
    ELSE MessageOr(OptProp(GetProp(r.value, KeyError), KeyMessage), fallback)

LlmErrorMessage(response) ==
    ErrorBodyMessage(JsonParse(response.errBody), LlmFallbackMessage(response.status))

\* The non-2xx return classifying by the status alone.
HttpFailureStatusOnly(status, m) ==
    IF m.t # "string" /\ status # 402 THEN LlmErr(NotAFunction, FALSE, 0)
    ELSE LlmErr(JsToString(m), status = 402, status)

\* The non-2xx return classifying by the message alone.
HttpFailureHeuristicsOnly(status, m) ==
    IF m.t # "string" THEN LlmErr(NotAFunction, FALSE, 0)
    ELSE LlmErr(m.v, isBillingError(m.v), status)

\* The return of llm-client.ts 79-85 for the message m.  With a status other
\* than 402, isBillingError(m) of a message that is no string throws a
\* TypeError, which the outer catch turns into a failure without status.
HttpFailure(status, m) ==
    IF status = 402 THEN LlmErr(JsToString(m), TRUE, 402)
    ELSE IF m.t # "string" THEN LlmErr(NotAFunction, isBillingError(NotAFunction), 0)
    ELSE LlmErr(m.v, isBillingError(m.v), status)

\* callLlmProxy without its outer catch: what parseSSEStream threw leaves it.
StreamOutcomeRethrow(r) == r

\* The outer catch classifying nothing as a billing error.
StreamOutcomeNeverBilling(r) ==
    IF r.threw THEN LlmErr(r.error, FALSE, 0) ELSE r

\* The outer catch (llm-client.ts 91-99) for what parseSSEStream threw.
StreamOutcome(r) ==
    IF r.threw THEN LlmErr(r.error, isBillingError(r.error), 0) ELSE r

callLlmProxy(response) ==
    IF response.kind = "reject"
    THEN LlmErr(response.msg, isBillingError(response.msg), 0)
    ELSE IF ~HttpOk(response.status)
    THEN HttpFailure(response.status, LlmErrorMessage(response))
    ELSE StreamOutcome(parseSSEStream(response))

(***************************************************************************)
(* sendResponse and its two canned variants (respond.ts 16-86)             *)
(***************************************************************************)

\* metadata of a delivery; "" and undefined stand for an absent field.
Meta(errorType, action, model, tokens) ==
    [errorType |-> errorType, action |-> action, model |-> model, tokens |-> tokens]
NoMeta == Meta("", "", "", JsUndefined)

\* An entry of a request's record of observable effects, in program order:
\*   "res"      a response written by sendJsonResponse (status, key, body)
\*   "listen"   readJsonBody registered its listeners on the request
\*   "task"     processMessage was called
\*   "gen"      the generation request was issued (messages)
\*   "dispatch" dispatchReplyFromConfig was called
\*   "post"     a POST to /api/response was issued (id, body, meta)
Effect(k, status, key, body, id, meta, messages) ==
    [k |-> k, status |-> status, key |-> key, body |-> body, id |-> id,
     meta |-> meta, messages |-> messages]

\* sendJsonResponse(res, statusCode, {key: body})
sendJsonResponse(statusCode, key, body) ==
    Effect("res", statusCode, key, body, <<>>, NoMeta, <<>>)

\* The POST issued by sendResponse(messageId, content, metadata).
PostOf(messageId, content, metadata) ==
    Effect("post", 0, "", content, messageId, metadata, <<>>)

sendBillingErrorResponse(messageId) ==
    PostOf(messageId, BillingContent, Meta("billing", "purchase_credits", "", JsUndefined))

sendErrorResponse(messageId, userMessage) ==
    PostOf(messageId, userMessage, Meta("error", "", "", JsUndefined))

\* A response of the application backend to the POST:
\*   kind "reject": fetch rejects with msg;
\*   kind "http": status, text (what response.text() yields, or NoMessage when
\*   it rejects) and body (the tokens read by response.json()).
AppReject(msg) ==
    [kind |-> "reject", msg |-> msg, status |-> 0, text |-> <<>>, body |-> <<>>]
AppHttp(status, text, body) ==
    [kind |-> "http", msg |-> <<>>, status |-> status, text |-> text, body |-> body]

\* The check that accepts every acknowledgment.
AckStatusAny(status) == [ok |-> TRUE, error |-> <<>>]

\* respond.ts 44-46: the acknowledgment's status must be "saved".
AckStatus(status) ==
    IF status # JsString(StatusSaved)
    THEN [ok |-> FALSE, error |-> UnexpectedStatusPrefix \o JsToString(status)]
    ELSE [ok |-> TRUE, error |-> <<>>]

\* respond.ts 43: response.json() parsed into r; it throws on a body that is
\* no JSON, and reading .status of null throws.
AckParsed(r) ==
    IF ~r.ok THEN [ok |-> FALSE, error |-> r.error]
    ELSE IF PropThrows(r.value) THEN [ok |-> FALSE, error |-> TypeErrorNull]
    ELSE AckStatus(GetProp(r.value, KeyStatus))

\* The rest of sendResponse after the fetch (respond.ts 36-46): it returns
\* (ok) or throws an error with a message.
sendResponse(response) ==
    IF response.kind = "reject" THEN [ok |-> FALSE, error |-> response.msg]
    ELSE IF ~HttpOk(response.status)
    THEN [ok |-> FALSE,
          error |-> FailedToSendPrefix \o DigitsOf(response.status) \o DashSep
                    \o (IF response.text = NoMessage THEN UnknownErrorText
                        ELSE response.text)]
    ELSE AckParsed(JsonParse(response.body))

(***************************************************************************)
(* Bounds and the environment's inputs                                     *)
(***************************************************************************)

\* Requests received in one run.
NumRequests == 2
\* Largest chunk, in tokens, a data event carries.
MaxChunk == 8
\* Blocks the agent dispatcher hands to the deliver callback in one dispatch.
MaxBlocks == 2
\* Tokens by which the longest request body exceeds the cap.
MaxOver == 1
\* The body cap handed to readJsonBody (MAX_PAYLOAD_BYTES), in tokens.
MAX_PAYLOAD_BYTES == 34

Requests == 1..NumRequests

SecretValue == <<"s", "e", "c">>
WrongSecret == <<"b", "a", "d">>
IdA == <<"m", "1">>
IdB == <<"m", "2">>
TextHi == <<"h", "i">>
TextYo == <<"y", "o">>
RoleUser == <<"u", "s", "e", "r">>
RoleAssistant == <<"a", "s", "s", "i", "s", "t", "a", "n", "t">>

\* The values of process.env.VM_INTERNAL_SECRET: unset, empty, set.
Secrets == {NoMessage, <<>>, SecretValue}

\* The values of req.headers.authorization: absent, right, wrong secret;
\* and the secret without the scheme, the scheme in another letter case, the
\* scheme alone.
AuthCore == {NoMessage, BearerPrefix \o SecretValue, BearerPrefix \o WrongSecret}
AuthAll ==
    AuthCore
    \cup {SecretValue, ToLowerCase(BearerPrefix) \o SecretValue, BearerPrefix}

Member(name, value) == <<Str(name), Colon>> \o value
Object2(m1, m2) == <<LBrace>> \o m1 \o <<Comma>> \o m2 \o <<RBrace>>
Object3(m1, m2, m3) ==
    <<LBrace>> \o m1 \o <<Comma>> \o m2 \o <<Comma>> \o m3 \o <<RBrace>>

\* {"messageId": id, "text": text}
Trigger(id, text) ==
    Object2(Member(KeyMessageId, <<Str(id)>>), Member(KeyText, <<Str(text)>>))

\* ... with "conversationHistory": history
TriggerWithHistory(id, text, history) ==
    Object3(Member(KeyMessageId, <<Str(id)>>), Member(KeyText, <<Str(text)>>),
            Member(KeyConversationHistory, history))

HistoryOneTurn ==
    <<LBrack>>
    \o Object2(Member(KeyRole, <<Str(RoleAssistant)>>),
               Member(KeyContent, <<Str(TextYo)>>))
    \o <<RBrack>>

HistoryTwoTurns ==
    <<LBrack>>
    \o Object2(Member(KeyRole, <<Str(RoleUser)>>),
               Member(KeyContent, <<Str(TextYo)>>))
    \o <<Comma>>
    \o Object2(Member(KeyRole, <<Str(RoleAssistant)>>),
               Member(KeyContent, <<Str(TextHi)>>))
    \o <<RBrack>>

\* doc followed by spaces up to n tokens.
PadTo(doc, n) == doc \o [i \in 1..(n - Len(doc)) |-> Space]

\* Request bodies of the pipeline workload.
BodiesCore ==
    {Trigger(IdA, TextHi),
     TriggerWithHistory(IdB, TextHi, HistoryOneTurn),
     TriggerWithHistory(IdA, TextHi, <<Num(<<"7">>)>>),
     <<LBrace>> \o Member(KeyMessageId, <<Str(IdA)>>) \o <<RBrace>>}

\* Request bodies of the gateway workload: every kind of JSON value, every
\* way messageId and text can be wrong, malformed texts, and the valid
\* trigger padded to one token under the cap, the cap, and over it.
BodiesAll ==
    BodiesCore
    \cup {Trigger(IdB, TextHi),
          TriggerWithHistory(IdA, TextHi, HistoryTwoTurns),
          TriggerWithHistory(IdA, TextHi, <<LBrack, RBrack>>),
          TriggerWithHistory(IdA, TextHi, <<Null>>)}
    \cup {<<>>, <<Space, Newline>>, <<Null>>, <<Num(<<"7">>)>>, <<Str(TextHi)>>,
          <<True>>, <<LBrack, RBrack>>, <<LBrack, Null, RBrack>>,
          <<LBrace, RBrace>>, <<Space, Null, Newline>>}
    \cup {<<LBrace>> \o Member(KeyText, <<Str(TextHi)>>) \o <<RBrace>>,
          Object2(Member(KeyMessageId, <<Str(<<>>)>>), Member(KeyText, <<Str(TextHi)>>)),
          Object2(Member(KeyMessageId, <<Num(<<"7">>)>>), Member(KeyText, <<Str(TextHi)>>)),
          Object2(Member(KeyMessageId, <<Null>>), Member(KeyText, <<Str(TextHi)>>)),
          Object2(Member(KeyMessageId, <<Str(IdA)>>), Member(KeyText, <<Str(<<>>)>>)),
          Object2(Member(KeyMessageId, <<Str(IdA)>>), Member(KeyText, <<Num(<<"7">>)>>)),
          Object2(Member(KeyMessageId, <<Str(IdA)>>), Member(KeyText, <<LBrack, RBrack>>)),
          Object3(Member(KeyMessageId, <<Str(IdA)>>), Member(KeyText, <<Str(TextHi)>>),
                  Member(KeyMessageId, <<Str(<<>>)>>))}
    \cup {<<LBrace, Str(KeyMessageId)>>, <<LBrace, RBrace, RBrace>>, <<Ch("?")>>,
          <<LBrace, Str(KeyMessageId), Colon, Str(IdA), Comma, RBrace>>,
          <<Space, Ch("?")>>}
    \cup {PadTo(Trigger(IdA, TextHi), n) :
            n \in (MAX_PAYLOAD_BYTES - 1)..(MAX_PAYLOAD_BYTES + MaxOver)}

\* Messages of transport errors, of errors thrown by the agent runtime and of
\* error bodies: without and with a billing keyword.
MsgFetchFailed == <<"f", "e", "t", "c", "h", " ", "f", "a", "i", "l", "e", "d">>
MsgAborted == <<"a", "b", "o", "r", "t", "e", "d">>
MsgPaymentRequired ==
    <<"P", "a", "y", "m", "e", "n", "t", " ", "R", "e", "q", "u", "i", "r", "e", "d">>
MsgOverloaded == <<"o", "v", "e", "r", "l", "o", "a", "d", "e", "d">>

\* Errors of the request stream.
StreamErrors == {MsgAborted}

\* What the agent runtime can throw (part_004 114-187).
AgentErrors == {MsgOverloaded, MsgPaymentRequired}

\* payload.text of a block handed to deliver: a text, or none.
BlockTexts == {TextHi, NoMessage}

(***************************************************************************)
(* State                                                                   *)
(***************************************************************************)

VARIABLES
    workload,   \* "pipeline", "gateway", "closing" or "client": which inputs
                \* the environment sends
    monitor,    \* the deployed monitor.ts: "direct" (respond.ts 266-468) or
                \* "agent" (part_004)
    secret,     \* VM_INTERNAL_SECRET, read once at module load
    runtime,    \* part_005: TRUE once setFirebaseRuntime has been called
    hpc,        \* per request: where handleFirebaseWebhookRequest is: "idle",
                \* "reading" (awaiting readJsonBody), returned "true" or
                \* "false", "rejected"; and, in the standalone server, where
                \* its caller is: "fallthrough" (the standalone handler
                \* answered itself), "caught" (the server's catch ran)
    request,    \* per request: method, path, authorization header
    stream,     \* per request: the IncomingMessage body stream
    rjb,        \* per request: the closure of readJsonBody
    effects,    \* per request: its observable effects, in order
    task,       \* per request: the background processMessage call
    llm,        \* one call of callLlmProxy followed step by step
    send,       \* one call of sendResponse followed step by step
    classify,   \* one call of isBillingError
    standalone  \* TRUE: the server of part_003 runs createStandaloneHandler;
                \* FALSE: the handler is registered with the gateway's router

vars == <<workload, monitor, secret, runtime, hpc, request, stream, rjb,
          effects, task, llm, send, classify, standalone>>

\* path is the pathname of req.url; query: req.url has a query string after it.
NoRequest == [method |-> "", path |-> "", query |-> FALSE, auth |-> NoMessage]
NoStream == [rest |-> <<>>, flowing |-> FALSE, ended |-> FALSE,
             errored |-> FALSE, destroyed |-> FALSE]
NoResult == [ok |-> FALSE, value |-> JsUndefined, error |-> <<>>]
\* chunks, total, resolved: the locals of readJsonBody; listeners: the events
\* of req it listens to; settled: calls of the promise's resolve; result: the
\* value the promise resolved to (the first one it was given).
NoRead == [chunks |-> <<>>, total |-> 0, resolved |-> FALSE, listeners |-> {},
           settled |-> 0, result |-> NoResult]
\* pc: "none", "generating" (awaiting callLlmProxy), "dispatching" (awaiting
\* dispatchReplyFromConfig), "sendInTry" (awaiting the sendResponse of
\* part_004 198, inside the try), "sendLast" (awaiting any other send),
\* "done".  outcome, once done: "Delivered", "DeliveryFailed", "Silent", or
\* "Failed" (processMessage threw before any downstream call).
\* caught: processMessage rejected and the .catch of the handler logged it.
\* generated: how generation ended, while the call lasts: "" (not yet),
\* "text", "empty", "billing" or "failure"; fullResponse: the text generated
\* (result.content in the direct version).
\* status, keyword, streamText: what the generation backend answered, kept
\* for the properties: the HTTP status (0: none yet, or none at all), whether
\* the error message of a non-2xx answer matches the billing heuristics, and
\* the whole text of a stream that was sent to its end (NoMessage: none).
\* partial: the text read from a stream before a read failed (NoMessage:
\* none); seq: the rank of the task among the tasks started so far;
\* ownText: the text of the blocks the dispatcher delivered to this task;
\* hadRuntime: the runtime was set when processMessage was called.
NoTask == [pc |-> "none", messageId |-> <<>>, fullResponse |-> <<>>,
           blocks |-> 0, generated |-> "", outcome |-> "", caught |-> FALSE,
           status |-> 0, keyword |-> FALSE, streamText |-> NoMessage,
           partial |-> NoMessage, seq |-> 0, ownText |-> <<>>,
           hadRuntime |-> FALSE]

\* A call of callLlmProxy: pc is "idle", "fetching" (awaiting fetch),
\* "reading" (in the read loop) or "returned"; response: what the backend
\* answers; rest: the bytes of the body not yet read; st: the locals of
\* parseSSEStream; result: the value returned; atDone: the text and the
\* counters at the end of the read that processed the first [DONE] line;
\* sawInput, sawOutput: some read ended with the counter set to a number.
NoSnapshot == [read |-> FALSE, content |-> <<>>, inputTokens |-> JsUndefined,
               outputTokens |-> JsUndefined]
NoCall == [pc |-> "idle", response |-> LlmNoBody, rest |-> <<>>, st |-> SseInit,
           midLine |-> FALSE, midPrefix |-> FALSE, atDone |-> NoSnapshot,
           sawInput |-> FALSE, sawOutput |-> FALSE,
           result |-> LlmErr(<<>>, FALSE, 0)]
\* A call of isBillingError: done, its argument and its result.
NoClassify == [done |-> FALSE, message |-> NoMessage, result |-> FALSE]
\* A call of sendResponse: pc is "idle", "posting" (awaiting fetch) or
\* "settled"; posts: the POSTs it issued; result: ok, or the error thrown.
NoSend == [pc |-> "idle", response |-> AppReject(<<>>), posts |-> 0,
           result |-> [ok |-> FALSE, error |-> <<>>]]

Init ==
    /\ workload = "pipeline"
    /\ monitor \in {"direct", "agent"}
    /\ secret \in Secrets
    /\ runtime = FALSE
    /\ hpc = [r \in Requests |-> "idle"]
    /\ request = [r \in Requests |-> NoRequest]
    /\ stream = [r \in Requests |-> NoStream]
    /\ rjb = [r \in Requests |-> NoRead]
    /\ effects = [r \in Requests |-> <<>>]
    /\ task = [r \in Requests |-> NoTask]
    /\ llm = NoCall
    /\ send = NoSend
    /\ classify = NoClassify
    /\ standalone = FALSE

\* One request, every request body, chunks of every size.
InitGateway ==
    /\ workload = "gateway"
    /\ monitor \in {"direct", "agent"}
    /\ secret \in Secrets
    /\ runtime = FALSE
    /\ hpc = [r \in Requests |-> "idle"]
    /\ request = [r \in Requests |-> NoRequest]
    /\ stream = [r \in Requests |-> NoStream]
    /\ rjb = [r \in Requests |-> NoRead]
    /\ effects = [r \in Requests |-> <<>>]
    /\ task = [r \in Requests |-> NoTask]
    /\ llm = NoCall
    /\ send = NoSend
    /\ classify = NoClassify
    /\ standalone \in BOOLEAN

\* One request with the bodies of the pipeline, whose connection can break
\* or be closed at any time, also after the acknowledgment.
InitLive ==
    /\ workload = "closing"
    /\ monitor \in {"direct", "agent"}
    /\ secret = SecretValue
    /\ runtime = FALSE
    /\ hpc = [r \in Requests |-> "idle"]
    /\ request = [r \in Requests |-> NoRequest]
    /\ stream = [r \in Requests |-> NoStream]
    /\ rjb = [r \in Requests |-> NoRead]
    /\ effects = [r \in Requests |-> <<>>]
    /\ task = [r \in Requests |-> NoTask]
    /\ llm = NoCall
    /\ send = NoSend
    /\ classify = NoClassify
    /\ standalone = FALSE

Bodies == IF workload = "gateway" THEN BodiesAll ELSE BodiesCore
AuthHeaders == IF workload = "gateway" THEN AuthAll ELSE AuthCore
\* In the pipeline workload the request stream keeps the contract of a Node
\* stream: nothing after "end" or "error", and after destroy() at most one
\* "error".  In the gateway workload it emits its events in any order.
Orderly == workload = "pipeline"
ChunkSizes == IF workload = "gateway" THEN 1..MaxChunk ELSE {MaxChunk}
Arrivals == IF workload \in {"gateway", "closing"} THEN {1} ELSE Requests
\* A request that is no POST /api/message comes with and without a query string.
Queries(method, path) ==
    IF workload = "gateway" /\ (method # "POST" \/ path # "/api/message")
    THEN BOOLEAN ELSE {FALSE}

(***************************************************************************)
(* readJsonBody (respond.ts 286-336, part_004 26-76)                       *)
(***************************************************************************)

ReadFail(msg) == [ok |-> FALSE, value |-> JsUndefined, error |-> msg]
ReadOk(value) == [ok |-> TRUE, value |-> value, error |-> <<>>]

\* doResolve without its guard: every call resolves, the listeners stay.
doResolveUnguarded(c, result) ==
    [c EXCEPT !.resolved = TRUE,
              !.settled = @ + 1,
              !.result = IF c.settled = 0 THEN result ELSE @]

\* doResolve(result)
doResolve(c, result) ==
    IF c.resolved THEN c
    ELSE [c EXCEPT !.resolved = TRUE,
                   !.listeners = {},
                   !.settled = @ + 1,
                   !.result = IF c.settled = 0 THEN result ELSE @]

\* The "data" listener rejecting a total that reaches the cap.
onDataAtCap(c, chunk, maxBytes) ==
    LET counted == [c EXCEPT !.total = @ + Len(chunk)] IN
    IF counted.total >= maxBytes
    THEN [c |-> doResolve(counted, ReadFail(ErrPayloadTooLarge)), destroy |-> TRUE]
    ELSE [c |-> [counted EXCEPT !.chunks = @ \o chunk], destroy |-> FALSE]

\* The "data" listener; destroy tells whether it called req.destroy().
onData(c, chunk, maxBytes) ==
    LET counted == [c EXCEPT !.total = @ + Len(chunk)] IN
    IF counted.total > maxBytes
    THEN [c |-> doResolve(counted, ReadFail(ErrPayloadTooLarge)), destroy |-> TRUE]
    ELSE [c |-> [counted EXCEPT !.chunks = @ \o chunk], destroy |-> FALSE]

\* What "end" resolves with for the text parsed into p (the try and the
\* catch of respond.ts 322-329).
Parsed(c, p) ==
    IF p.ok THEN doResolve(c, ReadOk(p.value)) ELSE doResolve(c, ReadFail(p.error))

\* The "end" listener without the check of raw.trim().
onEndNoEmptyCheck(c) == Parsed(c, JsonParse(c.chunks))

\* The "end" listener.
onEnd(c) ==
    IF TrimIsEmpty(c.chunks) THEN doResolve(c, ReadFail(ErrEmptyPayload))
    ELSE Parsed(c, JsonParse(c.chunks))

\* The "error" listener.
onError(c, msg) == doResolve(c, ReadFail(msg))

\* The promise executor: the locals and the three listeners.
readJsonBody == [NoRead EXCEPT !.listeners = {"data", "end", "error"}]

(***************************************************************************)
(* The environment's downstream responses                                  *)
(***************************************************************************)

TextHello == <<"H", "e", "l", "l", "o">>
TextWorld == <<" ", "w", "o", "r", "l", "d">>

\* One event-stream frame: data: <json>\n\n
Frame(json) == DataPrefix \o json \o <<Newline, Newline>>
Object1(m) == <<LBrace>> \o m \o <<RBrace>>

FrameMessageStart(n) ==
    Frame(Object2(Member(KeyType, <<Str(TypeMessageStart)>>),
                  Member(KeyMessage,
                         Object1(Member(KeyUsage,
                                        Object1(Member(KeyInputTokens, <<Num(n)>>)))))))
FrameBlockDelta(text) ==
    Frame(Object2(Member(KeyType, <<Str(TypeContentBlockDelta)>>),
                  Member(KeyDelta, Object1(Member(KeyText, <<Str(text)>>)))))
FrameMessageDelta(n) ==
    Frame(Object2(Member(KeyType, <<Str(TypeMessageDelta)>>),
                  Member(KeyUsage, Object1(Member(KeyOutputTokens, <<Num(n)>>)))))
FrameChoice(text) ==
    Frame(Object1(Member(KeyChoices,
        <<LBrack>>
        \o Object1(Member(KeyDelta, Object1(Member(KeyContent, <<Str(text)>>))))
        \o <<RBrack>>)))
\* A delta frame without a type.
FrameSimpleDelta(text) ==
    Frame(Object1(Member(KeyDelta, Object1(Member(KeyText, <<Str(text)>>)))))
FrameDone == DoneLine \o <<Newline, Newline>>

ErrorBody(msg) ==
    Object1(Member(KeyError, Object1(Member(KeyMessage, <<Str(msg)>>))))

StreamA ==
    FrameMessageStart(<<"3">>) \o FrameBlockDelta(TextHello)
    \o FrameBlockDelta(TextWorld) \o FrameMessageDelta(<<"5">>) \o FrameDone
StreamB == FrameChoice(TextHi) \o FrameChoice(TextYo) \o FrameDone

\* Bodies of a non-2xx answer: an error message without and with a billing
\* keyword, no JSON, empty, null, no error member, a message that is a number.
ErrorBodies ==
    {ErrorBody(MsgOverloaded), ErrorBody(MsgPaymentRequired), <<Ch("?")>>, <<>>,
     <<Null>>, <<LBrace, RBrace>>,
     Object1(Member(KeyError, Object1(Member(KeyMessage, <<Num(<<"4", "0", "2">>)>>))))}

ErrorStatuses == {402, 404, 500, 503}

\* What the generation backend can answer.
LlmResponses ==
    {LlmStream(<<StreamA>>, NoMessage),
     LlmStream(<<SubSeq(StreamB, 1, 9), SubSeq(StreamB, 10, Len(StreamB))>>, NoMessage),
     LlmStream(<<FrameMessageStart(<<"3">>) \o FrameDone>>, NoMessage),
     LlmStream(<<>>, NoMessage),
     LlmStream(<<FrameBlockDelta(TextHello)>>, MsgAborted),
     LlmNoBody,
     LlmHttpError(402, ErrorBody(MsgOverloaded)),
     LlmHttpError(500, ErrorBody(MsgOverloaded)),
     LlmHttpError(500, ErrorBody(MsgPaymentRequired)),
     LlmHttpError(503, <<Ch("?")>>),
     LlmReject(MsgFetchFailed)}

AckBody(status) == Object1(Member(KeyStatus, status))

\* What the application backend can answer to a POST /api/response.
AppResponses ==
    {AppHttp(200, <<>>, AckBody(<<Str(StatusSaved)>>)),
     AppHttp(200, <<>>, AckBody(<<Str(StatusProcessing)>>)),
     AppHttp(200, <<>>, <<LBrace, RBrace>>),
     AppHttp(200, <<>>, <<Null>>),
     AppHttp(204, <<>>, <<>>),
     AppHttp(500, MsgOverloaded, <<>>),
     AppHttp(500, NoMessage, <<>>),
     AppHttp(402, MsgOverloaded, <<>>),
     AppReject(MsgFetchFailed)}

(***************************************************************************)
(* processMessage                                                          *)
(***************************************************************************)

DefaultModel == "claude-haiku-4-5-20251001"
ReportedModel == "claude-sonnet-4-20250514"

\* [...(conversationHistory || [])] throws unless the value is falsy or
\* iterable.
Spreadable(history) == ~Truthy(history) \/ history.t \in {"array", "string"}
Spread(history) ==
    IF ~Truthy(history) THEN <<>>
    ELSE IF history.t = "array" THEN history.v
    ELSE [i \in 1..Len(history.v) |-> JsString(<<history.v[i]>>)]

UserTurn(text) ==
    JsObject(<<<<KeyRole, JsString(RoleUser)>>, <<KeyContent, text>>>>)

\* The fetch of callLlmProxy({messages}) (llm-client.ts 47-66).
GenerationCall(messages) ==
    Effect("gen", 0, "", <<>>, <<>>, Meta("", "", DefaultModel, JsUndefined), messages)

DispatchCall(messageId) == Effect("dispatch", 0, "", <<>>, messageId, NoMeta, <<>>)
TaskCall(messageId) == Effect("task", 0, "", <<>>, messageId, NoMeta, <<>>)

\* The catch block of part_004 200-210.
CatchSend(messageId, errorMessage) ==
    IF isBillingError(errorMessage)
    THEN sendBillingErrorResponse(messageId)
    ELSE sendErrorResponse(messageId, GenericContent)

\* How a failed generation is classified.
FailureKind(billing) == IF billing THEN "billing" ELSE "failure"

\* How the call of callLlmProxy ended (respond.ts 366-368).
ResultKind(result) ==
    IF ~result.ok THEN FailureKind(result.isBillingError)
    ELSE IF result.content = <<>> THEN "empty" ELSE "text"

Awaiting(pc, messageId) == [NoTask EXCEPT !.pc = pc, !.messageId = messageId]
\* The call is over: its locals are gone.
Finished(t, outcome, caught) ==
    [t EXCEPT !.pc = "done", !.outcome = outcome, !.caught = caught,
              !.fullResponse = <<>>, !.blocks = 0, !.generated = ""]

\* processMessage rejected and nothing handles the rejection.
RejectedUnhandled(t, outcome) == Finished(t, outcome, FALSE)

\* processMessage rejected: the .catch attached by the handler logs the error
\* (respond.ts 441-443, part_004 271-273).
Rejected(t, outcome) == Finished(t, outcome, TRUE)

\* The process that also abandons its tasks when a request's connection breaks.
ProcessAliveUntilClose ==
    /\ \A r \in Requests :
          task[r].outcome \in {"DeliveryFailed", "Failed"} => task[r].caught
    /\ \A r \in Requests : task[r].pc = "none" \/ ~stream[r].errored

\* An unhandled promise rejection terminates the process; none has occurred.
ProcessAlive ==
    \A r \in Requests :
        task[r].outcome \in {"DeliveryFailed", "Failed"} => task[r].caught

\* The direct version delivering while the generation call is in flight.
processMessageDirectPostFirst(body) ==
    [task |-> Awaiting("generating", GetProp(body, KeyMessageId).v),
     effects |-> <<GenerationCall(<<UserTurn(GetProp(body, KeyText))>>),
                   sendErrorResponse(GetProp(body, KeyMessageId).v, GenericContent)>>]

\* The direct version putting the new turn in front of the prior turns.
processMessageDirectNewFirst(body) ==
    LET messageId == GetProp(body, KeyMessageId).v
        history == GetProp(body, KeyConversationHistory)
    IN  IF ~Spreadable(history)
        THEN [task |-> Rejected(Awaiting("done", messageId), "Failed"),
              effects |-> <<>>]
        ELSE [task |-> Awaiting("generating", messageId),
              effects |-> <<GenerationCall(
                              <<UserTurn(GetProp(body, KeyText))>> \o Spread(history))>>]

\* processMessage up to its first await, direct version (respond.ts 354-366):
\* the task and the effects of that stretch.
processMessageDirect(body) ==
    LET messageId == GetProp(body, KeyMessageId).v
        history == GetProp(body, KeyConversationHistory)
    IN  IF ~Spreadable(history)
        THEN [task |-> Rejected(Awaiting("done", messageId), "Failed"),
              effects |-> <<>>]
        ELSE [task |-> Awaiting("generating", messageId),
              effects |-> <<GenerationCall(
                              Spread(history) \o <<UserTurn(GetProp(body, KeyText))>>)>>]

\* The agent version without the check of hasFirebaseRuntime: what
\* getFirebaseRuntime throws is answered by the catch block.
processMessageAgentNoCheck(body, hasRuntime, setupError) ==
    LET messageId == GetProp(body, KeyMessageId).v IN
    IF ~hasRuntime
    THEN [task |-> [Awaiting("sendLast", messageId) EXCEPT
                        !.generated = FailureKind(FALSE)],
          effects |-> <<sendErrorResponse(messageId, GenericContent)>>]
    ELSE IF setupError # NoMessage
    THEN [task |-> [Awaiting("sendLast", messageId) EXCEPT
                        !.generated = FailureKind(isBillingError(setupError))],
          effects |-> <<CatchSend(messageId, setupError)>>]
    ELSE [task |-> Awaiting("dispatching", messageId),
          effects |-> <<DispatchCall(messageId)>>]

\* processMessage up to its first await, agent version (part_004 95-187).
\* setupError: what the runtime calls before the dispatch throw, or NoMessage.
processMessageAgent(body, hasRuntime, setupError) ==
    LET messageId == GetProp(body, KeyMessageId).v IN
    IF ~hasRuntime
    THEN [task |-> Awaiting("sendLast", messageId),
          effects |-> <<sendErrorResponse(messageId, UnavailableContent)>>]
    ELSE IF setupError # NoMessage
    THEN [task |-> [Awaiting("sendLast", messageId) EXCEPT
                        !.generated = FailureKind(isBillingError(setupError))],
          effects |-> <<CatchSend(messageId, setupError)>>]
    ELSE [task |-> Awaiting("dispatching", messageId),
          effects |-> <<DispatchCall(messageId)>>]

processMessage(body, hasRuntime, setupError) ==
    IF monitor = "direct" THEN processMessageDirect(body)
    ELSE processMessageAgent(body, hasRuntime, setupError)

\* The continuation that answers every result with the generic message.
AfterGenerationGenericOnly(messageId, result) ==
    sendErrorResponse(messageId, GenericContent)

\* The continuation that answers every failure with the purchase prompt.
AfterGenerationAlwaysBilling(messageId, result) ==
    IF ~result.ok THEN sendBillingErrorResponse(messageId)
    ELSE PostOf(messageId, result.content, Meta("", "", ReportedModel, JsUndefined))

\* The continuation after callLlmProxy (respond.ts 368-387): the delivery.
AfterGeneration(messageId, result) ==
    IF ~result.ok
    THEN (IF result.isBillingError THEN sendBillingErrorResponse(messageId)
          ELSE sendErrorResponse(messageId, GenericContent))
    ELSE PostOf(messageId, result.content,
                Meta("", "", ReportedModel,
                     IF result.hasUsage THEN result.outputTokens ELSE JsUndefined))

(***************************************************************************)
(* handleFirebaseWebhookRequest (respond.ts 394-447, part_004 217-276)     *)
(***************************************************************************)

\* What the handler returns having written a response.
Responded(statusCode, key, body) ==
    [hpc |-> "true", effects |-> <<sendJsonResponse(statusCode, key, body)>>,
     reads |-> FALSE]

\* The handler calls readJsonBody and awaits it.
Reading ==
    [hpc |-> "reading",
     effects |-> <<Effect("listen", 0, "", <<>>, <<>>, NoMeta, <<>>)>>,
     reads |-> TRUE]

\* A header that only has to start with the scheme.
AuthorizedByScheme(auth) == StartsWith(auth, BearerPrefix)

\* authHeader === `Bearer ${VM_INTERNAL_SECRET}`
Authorized(auth) == auth = BearerPrefix \o secret

\* The handler checking the header before the secret.
HandlerEntryAuthFirst(method, path, auth) ==
    IF monitor = "agent" /\ method = "GET" /\ path = "/health"
    THEN Responded(200, "status+plugin", StatusOk)
    ELSE IF method # "POST" \/ path # "/api/message"
    THEN [hpc |-> "false", effects |-> <<>>, reads |-> FALSE]
    ELSE IF ~Authorized(auth)
    THEN Responded(401, "error", ErrUnauthorized)
    ELSE IF secret = NoMessage \/ secret = <<>>
    THEN Responded(500, "error", ErrServerMisconfigured)
    ELSE Reading

\* The handler from its call to its first await or return: the new handler
\* position ("reading", or the value returned), the response written and
\* whether readJsonBody was called.
HandlerEntry(method, path, auth) ==
    IF monitor = "agent" /\ method = "GET" /\ path = "/health"
    THEN Responded(200, "status+plugin", StatusOk)
    ELSE IF method # "POST" \/ path # "/api/message"
    THEN [hpc |-> "false", effects |-> <<>>, reads |-> FALSE]
    ELSE IF secret = NoMessage \/ secret = <<>>
    THEN Responded(500, "error", ErrServerMisconfigured)
    ELSE IF ~Authorized(auth)
    THEN Responded(401, "error", ErrUnauthorized)
    ELSE Reading

\* The acknowledgment and the call of processMessage, whose first stretch is
\* started, in the order: task first, acknowledgment last.
AcceptTaskFirst(body, started) ==
    [hpc |-> "true", task |-> started.task,
     effects |-> <<TaskCall(GetProp(body, KeyMessageId).v)>>
                 \o started.effects
                 \o <<sendJsonResponse(200, "status", StatusProcessing)>>]

\* The acknowledgment without the call of processMessage.
AcceptNoTask(body, started) ==
    [hpc |-> "true", task |-> NoTask,
     effects |-> <<sendJsonResponse(200, "status", StatusProcessing)>>]

\* The acknowledgment, then the call of processMessage, whose first stretch
\* is started (respond.ts 437-446, part_004 266-275).
Accept(body, started) ==
    [hpc |-> "true", task |-> started.task,
     effects |-> <<sendJsonResponse(200, "status", StatusProcessing),
                   TaskCall(GetProp(body, KeyMessageId).v)>>
                 \o started.effects]

\* The handler checking text before messageId.
HandlerRestTextFirst(bodyResult, hasRuntime, setupError) ==
    IF ~bodyResult.ok
    THEN [hpc |-> "true", task |-> NoTask,
          effects |-> <<sendJsonResponse(400, "error", bodyResult.error)>>]
    ELSE LET body == bodyResult.value IN
         IF PropThrows(body)
         THEN [hpc |-> "rejected", task |-> NoTask, effects |-> <<>>]
         ELSE IF NotNonEmptyString(GetProp(body, KeyText))
         THEN [hpc |-> "true", task |-> NoTask,
               effects |-> <<sendJsonResponse(400, "error", ErrText)>>]
         ELSE IF NotNonEmptyString(GetProp(body, KeyMessageId))
         THEN [hpc |-> "true", task |-> NoTask,
               effects |-> <<sendJsonResponse(400, "error", ErrMessageId)>>]
         ELSE Accept(body, processMessage(body, hasRuntime, setupError))

\* The handler after readJsonBody resolved with bodyResult.
HandlerRest(bodyResult, hasRuntime, setupError) ==
    IF ~bodyResult.ok
    THEN [hpc |-> "true", task |-> NoTask,
          effects |-> <<sendJsonResponse(400, "error", bodyResult.error)>>]
    ELSE LET body == bodyResult.value IN
         IF PropThrows(body)
         THEN [hpc |-> "rejected", task |-> NoTask, effects |-> <<>>]
         ELSE IF NotNonEmptyString(GetProp(body, KeyMessageId))
         THEN [hpc |-> "true", task |-> NoTask,
               effects |-> <<sendJsonResponse(400, "error", ErrMessageId)>>]
         ELSE IF NotNonEmptyString(GetProp(body, KeyText))
         THEN [hpc |-> "true", task |-> NoTask,
               effects |-> <<sendJsonResponse(400, "error", ErrText)>>]
         ELSE Accept(body, processMessage(body, hasRuntime, setupError))

(***************************************************************************)
(* Actions                                                                 *)
(***************************************************************************)

\* The server that takes the next request when the tasks of the earlier
\* ones are over.
NextToArriveAfterTasks(r) ==
    /\ hpc[r] = "idle"
    /\ \A q \in 1..(r - 1) :
          hpc[q] \notin {"idle", "reading"} /\ task[q].pc \in {"none", "done"}

\* Request r is the next to arrive.
NextToArrive(r) == hpc[r] = "idle" /\ \A q \in 1..(r - 1) : hpc[q] # "idle"

\* A request arrives (in order of arrival) and the handler runs to its first
\* await or to its return.
Receive(r) ==
    /\ ProcessAlive
    /\ r \in Arrivals
    /\ NextToArrive(r)
    /\ \E method \in {"POST", "GET"}, path \in {"/api/message", "/health", "/unknown"},
          auth \in AuthHeaders, body \in Bodies :
        LET entry == HandlerEntry(method, path, auth) IN
        /\ (method # "POST" \/ path # "/api/message") => body = <<>> /\ auth = NoMessage
        /\ \E query \in Queries(method, path) :
              request' = [request EXCEPT ![r] =
                  [method |-> method, path |-> path, query |-> query, auth |-> auth]]
        /\ stream' = [stream EXCEPT ![r] =
                          [NoStream EXCEPT !.rest = body, !.flowing = entry.reads]]
        /\ rjb' = [rjb EXCEPT ![r] = IF entry.reads THEN readJsonBody ELSE NoRead]
        /\ hpc' = [hpc EXCEPT ![r] = entry.hpc]
        /\ effects' = [effects EXCEPT ![r] = entry.effects]
    /\ UNCHANGED <<standalone, classify, llm, send, workload, monitor, secret, runtime, task>>

\* The request stream emits "data" with the next chunk.
DataEvent(r) ==
    /\ ProcessAlive
    /\ stream[r].flowing /\ ~stream[r].ended /\ stream[r].rest # <<>>
    /\ Orderly => ~stream[r].errored /\ ~stream[r].destroyed
    /\ \E n \in ChunkSizes :
        LET size == IF n < Len(stream[r].rest) THEN n ELSE Len(stream[r].rest)
            chunk == SubSeq(stream[r].rest, 1, size)
            heard == "data" \in rjb[r].listeners
            done == onData(rjb[r], chunk, MAX_PAYLOAD_BYTES)
        IN  /\ stream' = [stream EXCEPT
                  ![r].rest = SubSeq(@, size + 1, Len(@)),
                  ![r].destroyed = @ \/ (heard /\ done.destroy)]
            /\ rjb' = [rjb EXCEPT ![r] = IF heard THEN done.c ELSE @]
    /\ UNCHANGED <<standalone, classify, llm, send, workload, monitor, secret, runtime, hpc, request, effects, task>>

\* The request stream emits "end".
EndEvent(r) ==
    /\ ProcessAlive
    /\ stream[r].flowing /\ ~stream[r].ended /\ stream[r].rest = <<>>
    /\ Orderly => ~stream[r].errored /\ ~stream[r].destroyed
    /\ stream' = [stream EXCEPT ![r].ended = TRUE]
    /\ rjb' = [rjb EXCEPT ![r] = IF "end" \in @.listeners THEN onEnd(@) ELSE @]
    /\ UNCHANGED <<standalone, classify, llm, send, workload, monitor, secret, runtime, hpc, request, effects, task>>

\* The request stream emits "error": the connection broke, or was closed.
ErrorEvent(r) ==
    /\ ProcessAlive
    /\ stream[r].flowing /\ ~stream[r].errored
    /\ Orderly => ~stream[r].ended
    /\ \E msg \in StreamErrors :
        rjb' = [rjb EXCEPT ![r] = IF "error" \in @.listeners THEN onError(@, msg) ELSE @]
    /\ stream' = [stream EXCEPT ![r].errored = TRUE]
    /\ UNCHANGED <<standalone, classify, llm, send, workload, monitor, secret, runtime, hpc, request, effects, task>>

\* The handler resumes after await readJsonBody(...).
HandlerResume(r) ==
    /\ ProcessAlive
    /\ hpc[r] = "reading"
    /\ rjb[r].settled > 0
    /\ \E setupError \in (IF monitor = "agent" /\ runtime
                          THEN {NoMessage} \cup AgentErrors ELSE {NoMessage}) :
        LET rest == HandlerRest(rjb[r].result, runtime, setupError) IN
        /\ hpc' = [hpc EXCEPT ![r] = rest.hpc]
        /\ task' = [task EXCEPT ![r] =
              IF rest.task.pc = "none" THEN rest.task
              ELSE [rest.task EXCEPT
                      !.seq = 1 + Cardinality({q \in Requests : task[q].pc # "none"}),
                      !.hadRuntime = runtime]]
        /\ effects' = [effects EXCEPT ![r] = @ \o rest.effects]
    /\ UNCHANGED <<standalone, classify, llm, send, workload, monitor, secret, runtime, request, stream, rjb>>

\* The plugin's register() calls setFirebaseRuntime (part_001 37-40).
SetFirebaseRuntime ==
    /\ ProcessAlive
    /\ monitor = "agent"
    /\ ~runtime
    /\ runtime' = TRUE
    /\ UNCHANGED <<standalone, classify, llm, send, workload, monitor, secret, hpc, request, stream, rjb, effects, task>>

\* The substrings of the billing heuristics (respond.ts 56-60).
BillingKeywords ==
    {Kw402, KwInsufficientCredits, KwInsufficientCreditsU, KwBilling, KwPaymentRequired}

\* The message m, a JavaScript value, matches the billing heuristics: it is a
\* string containing one of the keywords, in any case.
MatchesHeuristics(m) ==
    /\ m.t = "string"
    /\ \E k \in BillingKeywords : Includes(ToLowerCase(m.v), k)

\* The HTTP status of the generation response, 0 when fetch rejected.
StatusOf(response) == IF response.kind = "http" THEN response.status ELSE 0

\* The response is a non-2xx answer whose error message matches the heuristics.
HasKeyword(response) ==
    /\ response.kind = "http"
    /\ ~HttpOk(response.status)
    /\ MatchesHeuristics(LlmErrorMessage(response))

\* The text fragments the bytes s carry from position i on, joined: the
\* string values of the members named "text" and "content".
RECURSIVE FragmentsFrom(_, _)
FragmentsFrom(s, i) ==
    IF i + 2 > Len(s) THEN <<>>
    ELSE IF /\ s[i] \in {Str(KeyText), Str(KeyContent)}
            /\ s[i + 1] = Colon
            /\ s[i + 2][1] = "s"
    THEN s[i + 2][2] \o FragmentsFrom(s, i + 3)
    ELSE FragmentsFrom(s, i + 1)

\* All chunks of a body from the i-th on, joined.
RECURSIVE JoinChunks(_, _)
JoinChunks(chunks, i) ==
    IF i > Len(chunks) THEN <<>> ELSE chunks[i] \o JoinChunks(chunks, i + 1)

\* The whole text of the stream of a 2xx response sent to its end.
StreamText(response) ==
    IF /\ response.kind = "http" /\ HttpOk(response.status)
       /\ response.hasBody /\ response.readError = NoMessage
    THEN FragmentsFrom(JoinChunks(response.chunks, 1), 1)
    ELSE NoMessage

\* A call of callLlmProxy answered with response: what it returns, with the
\* status and the keyword of the answer.
\* The text of the frames read from a 2xx response before a read fails.
PartialText(response) ==
    IF /\ response.kind = "http" /\ HttpOk(response.status)
       /\ response.hasBody /\ response.readError # NoMessage
    THEN FragmentsFrom(JoinChunks(response.chunks, 1), 1)
    ELSE NoMessage

LlmAnswer(response) ==
    [result |-> callLlmProxy(response),
     status |-> StatusOf(response),
     keyword |-> HasKeyword(response),
     streamText |-> StreamText(response),
     partial |-> PartialText(response)]

\* The calls the generation backend can answer; with one request (the gateway
\* workload), every error body at the statuses 402 and 500 as well.
PipelineAnswers == {LlmAnswer(response) : response \in LlmResponses}
GatewayAnswers ==
    PipelineAnswers
    \cup {LlmAnswer(LlmHttpError(s, b)) : s \in {402, 500}, b \in ErrorBodies}
Answers == IF workload = "gateway" THEN GatewayAnswers ELSE PipelineAnswers

\* processMessage resumes with the result of callLlmProxy.
Generated(r, answer) ==
    /\ effects' = [effects EXCEPT ![r] =
          Append(@, AfterGeneration(task[r].messageId, answer.result))]
    /\ task' = [task EXCEPT ![r].pc = "sendLast",
                            ![r].generated = ResultKind(answer.result),
                            ![r].fullResponse = answer.result.content,
                            ![r].status = answer.status,
                            ![r].keyword = answer.keyword,
                            ![r].streamText = answer.streamText,
                            ![r].partial = answer.partial]

\* callLlmProxy returns; processMessage issues the delivery.
GenerationReturn(r) ==
    /\ ProcessAlive
    /\ task[r].pc = "generating"
    /\ \E answer \in Answers : Generated(r, answer)
    /\ UNCHANGED <<standalone, classify, llm, send, workload, monitor, secret, runtime, hpc, request, stream, rjb>>

\* deliver appending to one fullResponse shared by all tasks that dispatch.
DispatchDeliverShared(r) ==
    /\ ProcessAlive
    /\ task[r].pc = "dispatching"
    /\ task[r].blocks < MaxBlocks
    /\ \E text \in BlockTexts :
        task' = [q \in Requests |->
            IF task[q].pc # "dispatching" THEN task[q]
            ELSE [task[q] EXCEPT
                    !.blocks = IF q = r THEN @ + 1 ELSE @,
                    !.ownText = IF q # r \/ text = NoMessage THEN @ ELSE @ \o text,
                    !.fullResponse = IF text = NoMessage THEN @ ELSE @ \o text]]
    /\ UNCHANGED <<standalone, classify, llm, send, workload, monitor, secret, runtime, hpc, request, stream, rjb, effects>>

\* The dispatcher calls deliver(payload, info) (part_004 156-168).
DispatchDeliver(r) ==
    /\ ProcessAlive
    /\ task[r].pc = "dispatching"
    /\ task[r].blocks < MaxBlocks
    /\ \E text \in BlockTexts :
        task' = [task EXCEPT
            ![r].blocks = @ + 1,
            ![r].ownText = IF text = NoMessage \/ text = <<>> THEN @ ELSE @ \o text,
            ![r].fullResponse = IF text = NoMessage \/ text = <<>> THEN @ ELSE @ \o text]
    /\ UNCHANGED <<standalone, classify, llm, send, workload, monitor, secret, runtime, hpc, request, stream, rjb, effects>>

\* dispatchReplyFromConfig returns (part_004 189-198).
DispatchReturn(r) ==
    /\ ProcessAlive
    /\ task[r].pc = "dispatching"
    /\ IF task[r].fullResponse = <<>>
       THEN /\ task' = [task EXCEPT ![r] = Finished(@, "Silent", FALSE)]
            /\ UNCHANGED effects
       ELSE /\ task' = [task EXCEPT ![r].pc = "sendInTry", ![r].blocks = 0,
                                    ![r].generated = "text",
                                    ![r].streamText = task[r].fullResponse]
            /\ effects' = [effects EXCEPT ![r] =
                  Append(@, PostOf(task[r].messageId, task[r].fullResponse, NoMeta))]
    /\ UNCHANGED <<standalone, classify, llm, send, workload, monitor, secret, runtime, hpc, request, stream, rjb>>

\* dispatchReplyFromConfig throws: the catch block sends an error message.
DispatchThrow(r) ==
    /\ ProcessAlive
    /\ task[r].pc = "dispatching"
    /\ \E msg \in AgentErrors :
        /\ effects' = [effects EXCEPT ![r] =
              Append(@, CatchSend(task[r].messageId, msg))]
        /\ task' = [task EXCEPT ![r].pc = "sendLast", ![r].blocks = 0,
                                ![r].fullResponse = <<>>, ![r].ownText = <<>>,
                                ![r].generated = FailureKind(isBillingError(msg))]
    /\ UNCHANGED <<standalone, classify, llm, send, workload, monitor, secret, runtime, hpc, request, stream, rjb>>

\* What sendResponse can return or throw.
SendResults == {sendResponse(response) : response \in AppResponses}

\* The task of request r resumes after await sendResponse(...), which
\* returned or threw: sent.
Sent(r, sent) ==
    IF sent.ok
    THEN /\ task' = [task EXCEPT ![r] = Finished(@, "Delivered", FALSE)]
         /\ UNCHANGED effects
    ELSE IF task[r].pc = "sendInTry"
    THEN /\ task' = [task EXCEPT ![r].pc = "sendLast"]
         /\ effects' = [effects EXCEPT ![r] =
               Append(@, CatchSend(task[r].messageId, sent.error))]
    ELSE /\ task' = [task EXCEPT ![r] = Rejected(@, "DeliveryFailed")]
         /\ UNCHANGED effects

\* The application backend answers the POST (or the fetch rejects) and
\* sendResponse returns or throws.  A throw inside the try of part_004 runs
\* its catch block; any other throw rejects processMessage, which the handler's
\* .catch logs.
SendReturn(r) ==
    /\ ProcessAlive
    /\ task[r].pc \in {"sendInTry", "sendLast"}
    /\ \E sent \in SendResults : Sent(r, sent)
    /\ UNCHANGED <<standalone, classify, llm, send, workload, monitor, secret, runtime, hpc, request, stream, rjb>>

\* The standalone handler resumes after await handleFirebaseWebhookRequest,
\* which returned false (respond.ts 457-466, part_004 288-297): it compares
\* req.url, query string included, with "/health".
StandaloneReturn(r) ==
    /\ ProcessAlive
    /\ standalone
    /\ hpc[r] = "false"
    /\ hpc' = [hpc EXCEPT ![r] = "fallthrough"]
    /\ effects' = [effects EXCEPT ![r] = Append(@,
          IF request[r].method = "GET" /\ request[r].path = "/health" /\ ~request[r].query
          THEN sendJsonResponse(200, "status", StatusOk)
          ELSE sendJsonResponse(404, "error", ErrNotFound))]
    /\ UNCHANGED <<standalone, classify, llm, send, workload, monitor, secret, runtime, request, stream, rjb, task>>

\* The handler's promise rejected: the catch of the standalone server answers
\* 500 unless the headers were sent (part_003 45-52).
ServerCatch(r) ==
    /\ ProcessAlive
    /\ standalone
    /\ hpc[r] = "rejected"
    /\ hpc' = [hpc EXCEPT ![r] = "caught"]
    /\ effects' = [effects EXCEPT ![r] =
          IF \E i \in 1..Len(@) : @[i].k = "res" THEN @
          ELSE Append(@, sendJsonResponse(500, "error", ErrInternal))]
    /\ UNCHANGED <<standalone, classify, llm, send, workload, monitor, secret, runtime, request, stream, rjb, task>>

Next ==
    \/ \E r \in Requests : Receive(r)
    \/ \E r \in Requests : DataEvent(r)
    \/ \E r \in Requests : EndEvent(r)
    \/ \E r \in Requests : ErrorEvent(r)
    \/ \E r \in Requests : HandlerResume(r)
    \/ SetFirebaseRuntime
    \/ \E r \in Requests : GenerationReturn(r)
    \/ \E r \in Requests : DispatchDeliver(r)
    \/ \E r \in Requests : DispatchReturn(r)
    \/ \E r \in Requests : DispatchThrow(r)
    \/ \E r \in Requests : SendReturn(r)

\* The pipeline: NumRequests requests in flight together.
Spec == Init /\ [][Next]_vars

\* The steps of the gateway, behind the router or in the standalone server.
NextGateway ==
    \/ Next
    \/ \E r \in Requests : StandaloneReturn(r)
    \/ \E r \in Requests : ServerCatch(r)

\* The gateway: one request, every kind of body, chunks of every size.
SpecGateway == InitGateway /\ [][NextGateway]_vars

\* Every outbound call eventually returns or fails: the generation call, the
\* dispatch through the agent, the delivery.
OutboundCallsReturn ==
    \A r \in Requests :
        /\ WF_vars(GenerationReturn(r))
        /\ WF_vars(DispatchReturn(r) \/ DispatchThrow(r))
        /\ WF_vars(SendReturn(r))

\* One task whose outbound calls all return.
SpecLive == InitLive /\ [][Next]_vars /\ OutboundCallsReturn

(***************************************************************************)
(* The clients alone: one call of callLlmProxy, or one call of             *)
(* sendResponse, followed step by step                                     *)
(***************************************************************************)

serverVars == <<workload, monitor, secret, runtime, hpc, request, stream, rjb,
                effects, task, standalone>>

\* Lists of text fragments carried by the frames of a stream.
FragmentsA == {<<>>, <<TextHello>>, <<TextHello, TextWorld>>}
FragmentsB == {<<TextHi>>, <<TextHi, TextYo>>}

\* The fragments of frags from the i-th on, joined.
RECURSIVE Concat(_, _)
Concat(frags, i) ==
    IF i > Len(frags) THEN <<>> ELSE frags[i] \o Concat(frags, i + 1)

RECURSIVE BlockDeltas(_, _)
BlockDeltas(frags, i) ==
    IF i > Len(frags) THEN <<>>
    ELSE FrameBlockDelta(frags[i]) \o BlockDeltas(frags, i + 1)

RECURSIVE Choices(_, _)
Choices(frags, i) ==
    IF i > Len(frags) THEN <<>>
    ELSE FrameChoice(frags[i]) \o Choices(frags, i + 1)

\* A frame with a top-level usage object.
FrameUsage(prompt, completion) ==
    Frame(Object1(Member(KeyUsage,
        Object2(Member(KeyPromptTokens, <<Num(prompt)>>),
                Member(KeyCompletionTokens, <<Num(completion)>>)))))

\* The stream of the first dialect: message_start with input_tokens 3, one
\* content_block_delta per fragment, message_delta with output_tokens 5,
\* [DONE] (as test/mock-services.ts 114-154 sends it).
DialectA(frags) ==
    FrameMessageStart(<<"3">>) \o BlockDeltas(frags, 1)
    \o FrameMessageDelta(<<"5">>) \o FrameDone

\* The stream of the second dialect: one choices[0].delta.content frame per
\* fragment, with or without a usage frame (prompt_tokens 7,
\* completion_tokens 9), [DONE].
DialectB(frags, usage) ==
    Choices(frags, 1)
    \o (IF usage THEN FrameUsage(<<"7">>, <<"9">>) ELSE <<>>)
    \o FrameDone

\* s without its last n tokens.
DropLast(s, n) == SubSeq(s, 1, Len(s) - n)

\* Streams that go on after the [DONE] line: with a text frame, with a usage
\* frame, with a text frame whose line is not terminated.
AfterDoneStreams ==
    {FrameBlockDelta(TextHello) \o FrameDone \o FrameBlockDelta(TextWorld),
     FrameChoice(TextHi) \o FrameDone \o FrameUsage(<<"7">>, <<"9">>),
     FrameChoice(TextHi) \o FrameDone \o DropLast(FrameChoice(TextYo), 2)}

\* A frame of the type message_delta that carries delta.text.
FrameTypedText(text) ==
    Frame(Object2(Member(KeyType, <<Str(TypeMessageDelta)>>),
                  Member(KeyDelta, Object1(Member(KeyText, <<Str(text)>>)))))

\* Frames put last in a stream, with and without the newlines after them:
\* text frames of both dialects, typed frames carrying delta.text, frames
\* with token counts.
LastFrames ==
    {FrameBlockDelta(TextHello), FrameSimpleDelta(TextHello), FrameChoice(TextHi),
     FrameTypedText(TextYo), FrameUsage(<<"7">>, <<"9">>),
     FrameMessageStart(<<"3">>), FrameMessageDelta(<<"5">>)}
TailStreams ==
    LastFrames
    \cup {DropLast(f, 2) : f \in LastFrames}
    \cup {FrameChoice(TextHi) \o DropLast(FrameUsage(<<"7">>, <<"9">>), 2)}

\* Streams whose unterminated last line is no JSON value: a frame cut before
\* its closing brace, a line that is no JSON at all; and one whose last line
\* is null.
BrokenTails ==
    {DropLast(FrameChoice(TextHi), 3),
     FrameBlockDelta(TextHello) \o DataPrefix \o <<Ch("?")>>,
     FrameBlockDelta(TextHello) \o DataPrefix \o <<Null>>}

\* Noise lines: a comment line, a text frame without the "data: " prefix,
\* and "data: " lines whose payload is no JSON, null, a number, a string, an
\* array.
NoiseLines ==
    {<<Ch(":"), Newline>>,
     Slice(FrameChoice(TextYo), Len(DataPrefix)),
     DataPrefix \o <<Ch("?"), Newline>>,
     DataPrefix \o <<Null, Newline>>,
     DataPrefix \o <<Num(<<"7">>), Newline>>,
     DataPrefix \o <<Str(TextYo), Newline>>,
     DataPrefix \o <<LBrack, Null, RBrack, Newline>>}

\* A text frame and a usage frame, and the same with a noise line between
\* them or before them.
CleanStream == FrameChoice(TextHi) \o FrameUsage(<<"7">>, <<"9">>)
NoiseBetween(n) == FrameChoice(TextHi) \o n \o FrameUsage(<<"7">>, <<"9">>)
NoiseFirst(n) == n \o CleanStream
NoisyStreams ==
    {CleanStream}
    \cup {NoiseBetween(n) : n \in NoiseLines}
    \cup {NoiseFirst(DataPrefix \o <<Null, Newline>>)}

\* Streams that mix the frames of both dialects, one with the same fragment
\* twice in a row.
MixedStreams ==
    {FrameBlockDelta(TextHello) \o FrameChoice(TextHi) \o FrameBlockDelta(TextWorld)
        \o FrameDone,
     FrameChoice(TextHi) \o FrameSimpleDelta(TextHello) \o FrameChoice(TextYo)
        \o FrameDone,
     FrameChoice(TextHi) \o FrameChoice(TextHi) \o FrameBlockDelta(TextHello)}

\* Event streams: both dialects, a stream whose last line is not terminated,
\* a stream with a line that is no JSON, the empty stream, streams with
\* frames after [DONE].
ClientStreams ==
    {DialectA(f) : f \in FragmentsA}
    \cup {DialectB(f, u) : f \in FragmentsB, u \in BOOLEAN}
    \cup {DropLast(FrameChoice(TextHi), 2),
          DataPrefix \o <<Ch("?"), Newline>> \o FrameBlockDelta(TextHello),
          <<>>}
    \cup AfterDoneStreams
    \cup MixedStreams
    \cup TailStreams
    \cup BrokenTails
    \cup NoisyStreams

\* What the generation backend can answer to the call followed alone.
ClientResponses ==
    {LlmStream(<<s>>, NoMessage) : s \in ClientStreams}
    \cup {LlmStream(<<FrameBlockDelta(TextHello)>>, MsgAborted),
          LlmStream(<<FrameBlockDelta(TextHello)>>, MsgPaymentRequired), LlmNoBody,
          LlmReject(MsgFetchFailed), LlmReject(MsgPaymentRequired)}
    \cup {LlmHttpError(s, b) : s \in ErrorStatuses, b \in ErrorBodies}

\* What the application backend can answer to the send followed alone.
ClientAcks ==
    AppResponses
    \cup {AppHttp(201, <<>>, AckBody(<<Str(StatusSaved)>>)),
          AppHttp(200, <<>>, <<Space>> \o AckBody(<<Str(StatusSaved)>>) \o <<Newline>>),
          AppHttp(404, NoMessage, AckBody(<<Str(StatusSaved)>>)),
          AppHttp(302, <<>>, AckBody(<<Str(StatusSaved)>>)),
          AppHttp(200, <<>>, AckBody(<<Null>>)),
          AppHttp(200, <<>>, <<LBrack, Str(StatusSaved), RBrack>>),
          AppHttp(200, <<>>, <<Str(StatusSaved)>>)}

InitClient ==
    /\ workload = "client"
    /\ monitor = "direct"
    /\ secret = SecretValue
    /\ runtime = FALSE
    /\ hpc = [r \in Requests |-> "idle"]
    /\ request = [r \in Requests |-> NoRequest]
    /\ stream = [r \in Requests |-> NoStream]
    /\ rjb = [r \in Requests |-> NoRead]
    /\ effects = [r \in Requests |-> <<>>]
    /\ task = [r \in Requests |-> NoTask]
    /\ llm = NoCall
    /\ send = NoSend
    /\ classify = NoClassify
    /\ standalone = FALSE

\* callLlmProxy is called: the request is issued (llm-client.ts 54-66).
LlmCall ==
    /\ llm.pc = "idle" /\ send.pc = "idle" /\ ~classify.done
    /\ \E response \in ClientResponses :
        llm' = [NoCall EXCEPT !.pc = "fetching", !.response = response]
    /\ UNCHANGED <<classify, send, serverVars>>

\* fetch rejects: the outer catch returns a failure (llm-client.ts 91-99).
FetchRejects ==
    /\ llm.pc = "fetching"
    /\ llm.response.kind = "reject"
    /\ llm' = [llm EXCEPT
          !.pc = "returned",
          !.result = LlmErr(llm.response.msg, isBillingError(llm.response.msg), 0)]
    /\ UNCHANGED <<classify, send, serverVars>>

\* fetch resolves with a non-2xx status (llm-client.ts 68-86).
ErrorStatus ==
    /\ llm.pc = "fetching"
    /\ llm.response.kind = "http"
    /\ ~HttpOk(llm.response.status)
    /\ llm' = [llm EXCEPT
          !.pc = "returned",
          !.result = HttpFailure(llm.response.status, LlmErrorMessage(llm.response))]
    /\ UNCHANGED <<classify, send, serverVars>>

\* fetch resolves with a 2xx status: parseSSEStream takes the reader, or
\* returns at once when there is no body (llm-client.ts 88-89, 106-120).
StreamOpen ==
    /\ llm.pc = "fetching"
    /\ llm.response.kind = "http"
    /\ HttpOk(llm.response.status)
    /\ IF ~llm.response.hasBody
       THEN llm' = [llm EXCEPT !.pc = "returned",
                               !.result = StreamOutcome(LlmErr(NoResponseBody, FALSE, 0))]
       ELSE llm' = [llm EXCEPT !.pc = "reading", !.st = SseInit,
                               !.rest = Concat(llm.response.chunks, 1)]
    /\ UNCHANGED <<classify, send, serverVars>>

\* buf is a part of the "data: " prefix, neither empty nor whole.
InsidePrefix(buf) ==
    buf # <<>> /\ Len(buf) < Len(DataPrefix) /\ StartsWith(DataPrefix, buf)

\* The call after a read that left the parser's locals st and the bytes rest
\* unread; midLine and midPrefix remember that some read ended inside a line,
\* and inside the prefix of a line.
AfterRead(st, rest) ==
    [llm EXCEPT !.st = st, !.rest = rest,
                !.midLine = @ \/ (st.buffer # <<>> /\ rest # <<>>),
                !.midPrefix = @ \/ (InsidePrefix(st.buffer) /\ rest # <<>>),
                !.sawInput = @ \/ st.inputTokens.t = "number",
                !.sawOutput = @ \/ st.outputTokens.t = "number"]

\* lines holds a complete [DONE] line (llm-client.ts 135).
HasDoneLine(lines) == \E i \in 1..(Len(lines) - 1) : lines[i] = DoneLine

\* The call c after a read of chunk: the first read that processes a [DONE]
\* line leaves the text and the counters it ended with in atDone.
NoteDone(c, chunk) ==
    IF ~llm.atDone.read /\ HasDoneLine(SplitLines(llm.st.buffer \o chunk))
    THEN [c EXCEPT !.atDone = [read |-> TRUE, content |-> c.st.content,
                               inputTokens |-> c.st.inputTokens,
                               outputTokens |-> c.st.outputTokens]]
    ELSE c

\* reader.read() yields the next bytes, however many the network delivers
\* at once, and the loop body runs (llm-client.ts 123-174).
ReadChunk ==
    /\ llm.pc = "reading"
    /\ llm.rest # <<>>
    /\ \E n \in 1..Len(llm.rest) :
        llm' = NoteDone(AfterRead(ProcessChunk(llm.st, SubSeq(llm.rest, 1, n)),
                                  SubSeq(llm.rest, n + 1, Len(llm.rest))),
                        SubSeq(llm.rest, 1, n))
    /\ UNCHANGED <<classify, send, serverVars>>

\* reader.read() rejects: parseSSEStream throws and the outer catch of
\* callLlmProxy returns a failure.
ReadFails ==
    /\ llm.pc = "reading"
    /\ llm.response.readError # NoMessage
    /\ llm' = [llm EXCEPT !.pc = "returned",
                          !.result = StreamOutcome(LlmThrew(llm.response.readError))]
    /\ UNCHANGED <<classify, send, serverVars>>

\* reader.read() yields done: the rest of the buffer is processed and the
\* result returned (llm-client.ts 125, 176-198).
ReadDone ==
    /\ llm.pc = "reading"
    /\ llm.rest = <<>>
    /\ llm.response.readError = NoMessage
    /\ llm' = [llm EXCEPT !.pc = "returned",
                          !.result = StreamOutcome(StreamResult(ProcessTail(llm.st)))]
    /\ UNCHANGED <<classify, send, serverVars>>

\* sendResponse is called: the POST is issued (respond.ts 21-34).
SendCall ==
    /\ llm.pc = "idle" /\ send.pc = "idle" /\ ~classify.done
    /\ \E response \in ClientAcks :
        send' = [NoSend EXCEPT !.pc = "posting", !.response = response,
                               !.posts = send.posts + 1]
    /\ UNCHANGED <<classify, llm, serverVars>>

\* The POST settles and sendResponse returns or throws (respond.ts 36-46).
SendSettles ==
    /\ send.pc = "posting"
    /\ send' = [send EXCEPT !.pc = "settled", !.result = sendResponse(send.response)]
    /\ UNCHANGED <<classify, llm, serverVars>>

\* Messages handed to isBillingError: undefined, empty, each keyword alone, in
\* capitals and inside a sentence, and messages that come close to a keyword.
Upper(s) ==
    [i \in 1..Len(s) |->
        CASE s[i] = "a" -> "A" [] s[i] = "b" -> "B" [] s[i] = "c" -> "C"
          [] s[i] = "d" -> "D" [] s[i] = "e" -> "E" [] s[i] = "f" -> "F"
          [] s[i] = "g" -> "G" [] s[i] = "i" -> "I" [] s[i] = "l" -> "L"
          [] s[i] = "m" -> "M" [] s[i] = "n" -> "N" [] s[i] = "p" -> "P"
          [] s[i] = "q" -> "Q" [] s[i] = "r" -> "R" [] s[i] = "s" -> "S"
          [] s[i] = "t" -> "T" [] s[i] = "u" -> "U" [] s[i] = "y" -> "Y"
          [] OTHER -> s[i]]

\* s with its first letter in capitals.
Capitalized(s) == IF s = <<>> THEN s ELSE Upper(SubSeq(s, 1, 1)) \o SubSeq(s, 2, Len(s))

NearMisses ==
    {<<"4", "0", " ", "2">>, <<"4", "0", "3">>, <<"b", "i", "l", "l">>,
     <<"i", "n", "s", "u", "f", "f", "i", "c", "i", "e", "n", "t", "-", "c", "r",
       "e", "d", "i", "t", "s">>,
     <<"p", "a", "y", "m", "e", "n", "t", "r", "e", "q", "u", "i", "r", "e", "d">>,
     <<"p", "a", "y", "m", "e", "n", "t", " ", "r", "e", "q", "u", "i", "r", "e">>,
     MsgOverloaded, MsgFetchFailed, <<" ">>}

ClassifyMessages ==
    {NoMessage, <<>>}
    \cup BillingKeywords
    \cup {Upper(k) : k \in BillingKeywords}
    \cup {Capitalized(k) : k \in BillingKeywords}
    \cup {MsgAborted \o <<":", " ">> \o form \o <<".">> :
            form \in BillingKeywords \cup {Upper(k) : k \in BillingKeywords}}
    \cup NearMisses
    \cup {Upper(m) : m \in NearMisses}

\* isBillingError is called and returns (respond.ts 52-62).
Classify ==
    /\ ~classify.done
    /\ llm.pc = "idle" /\ send.pc = "idle"
    /\ \E message \in ClassifyMessages :
        classify' = [done |-> TRUE, message |-> message,
                     result |-> isBillingError(message)]
    /\ UNCHANGED <<llm, send, serverVars>>

NextClient ==
    \/ Classify
    \/ LlmCall
    \/ FetchRejects
    \/ ErrorStatus
    \/ StreamOpen
    \/ ReadChunk
    \/ ReadFails
    \/ ReadDone
    \/ SendCall
    \/ SendSettles

\* The clients alone.
SpecClient == InitClient /\ [][NextClient]_vars

(***************************************************************************)
(* Properties                                                              *)
(***************************************************************************)

\* The POSTs to /api/response a request has caused, as positions of its record.
Posts(r) == {i \in 1..Len(effects[r]) : effects[r][i].k = "post"}
\* Its downstream calls: generation, dispatch, delivery.
Downstream(r) ==
    {i \in 1..Len(effects[r]) : effects[r][i].k \in {"gen", "dispatch", "post"}}
TaskStarted(r) == \E i \in 1..Len(effects[r]) : effects[r][i].k = "task"
Acknowledgment == sendJsonResponse(200, "status", StatusProcessing)
IsMessagePost(r) ==
    request[r].method = "POST" /\ request[r].path = "/api/message"
Listened == Effect("listen", 0, "", <<>>, <<>>, NoMeta, <<>>)

\* C1: for every validated trigger the background task issues at most one
\* POST to /api/response, whatever the outcome of generation and of the
\* delivery: a failed delivery is never followed by a second attempt.
C1_AtMostOneDelivery ==
    \A r \in Requests : TaskStarted(r) => Cardinality(Posts(r)) <= 1

\* The agent version after a failed delivery: the text, then the error message.
C1_Witness ==
    \E r \in Requests :
        /\ monitor = "agent"
        /\ Cardinality(Posts(r)) = 2
        /\ \E i, j \in Posts(r) :
              /\ i < j
              /\ effects[r][i].body = TextHi
              /\ effects[r][j] = sendErrorResponse(task[r].messageId, GenericContent)

\* C2: whenever generation has ended with non-empty text or with a failure,
\* the task has issued a delivery for that trigger carrying, respectively, the
\* generated text, the billing message or the generic error message.
C2_NeverSilentlyDropped ==
    \A r \in Requests :
        task[r].generated \in {"text", "billing", "failure"} =>
            \E i \in Posts(r) :
                /\ effects[r][i].id = task[r].messageId
                /\ effects[r][i].body =
                      CASE task[r].generated = "text" -> task[r].fullResponse
                        [] task[r].generated = "billing" -> BillingContent
                        [] OTHER -> GenericContent
                /\ task[r].generated = "text" => task[r].fullResponse # <<>>

C2_Witness ==
    \E r \in Requests :
        /\ task[r].generated = "billing"
        /\ task[r].pc = "sendLast"
        /\ effects[r][Len(effects[r])] = sendBillingErrorResponse(task[r].messageId)

\* C3: when generation succeeds with empty text, the task makes no delivery
\* call at all for that trigger.
C3_EmptyTextNoDelivery ==
    \A r \in Requests :
        (task[r].generated = "empty" \/ task[r].outcome = "Silent") => Posts(r) = {}

\* The direct version delivering the empty text.
C3_Witness ==
    \E r \in Requests :
        /\ monitor = "direct"
        /\ task[r].generated = "empty"
        /\ Cardinality(Posts(r)) = 1
        /\ effects[r][Len(effects[r])].body = <<>>

\* C4: the 200 {status:"processing"} response of a valid request is written
\* before its generation call and before any delivery call: no downstream call
\* of a request precedes its acknowledgment, and every request whose task was
\* started has been acknowledged.
C4_AckBeforeDownstream ==
    \A r \in Requests :
        /\ \A i \in Downstream(r) :
              \E j \in 1..(i - 1) : effects[r][j] = Acknowledgment
        /\ TaskStarted(r) => \E j \in 1..Len(effects[r]) : effects[r][j] = Acknowledgment

C4_Witness ==
    \E r \in Requests :
        /\ \E i \in Downstream(r) : effects[r][i].k = "gen"
        /\ \E i \in Posts(r) : effects[r][i].body = TextHello \o TextWorld

\* C5: with the secret configured, a POST /api/message whose Authorization
\* header is absent or is not exactly "Bearer <secret>" gets
\* 401 {error:"Unauthorized"}; no body listener is registered, no chunk is
\* read and no background task is started.
C5_UnauthorizedNoBodyRead ==
    \A r \in Requests :
        (/\ hpc[r] # "idle"
         /\ IsMessagePost(r)
         /\ secret = SecretValue
         /\ request[r].auth # <<"B", "e", "a", "r", "e", "r", " ">> \o SecretValue)
        => /\ effects[r] = <<sendJsonResponse(401, "error", ErrUnauthorized)>>
           /\ hpc[r] = "true"
           /\ rjb[r] = NoRead
           /\ ~stream[r].flowing
           /\ task[r] = NoTask

C5_Witness ==
    \E r \in Requests :
        /\ IsMessagePost(r)
        /\ request[r].auth = ToLowerCase(BearerPrefix) \o SecretValue
        /\ stream[r].rest = Trigger(IdA, TextHi)
        /\ effects[r] = <<sendJsonResponse(401, "error", ErrUnauthorized)>>

\* C6: with the secret unset or empty, every POST /api/message gets
\* 500 {error:"Server misconfigured"} whatever its Authorization header (the
\* 500 check precedes the 401 check); the body is never read and no background
\* task is started.
C6_MisconfiguredBefore401 ==
    \A r \in Requests :
        (hpc[r] # "idle" /\ IsMessagePost(r) /\ secret \in {NoMessage, <<>>})
        => /\ effects[r] = <<sendJsonResponse(500, "error", ErrServerMisconfigured)>>
           /\ hpc[r] = "true"
           /\ rjb[r] = NoRead
           /\ ~stream[r].flowing
           /\ task[r] = NoTask

C6_Witness ==
    \E r \in Requests :
        /\ IsMessagePost(r)
        /\ secret = <<>>
        /\ request[r].auth = BearerPrefix \o WrongSecret
        /\ effects[r] = <<sendJsonResponse(500, "error", ErrServerMisconfigured)>>

\* The body read ended with a well-formed JSON value and the handler is past it.
ParsedBody(r) ==
    /\ hpc[r] \notin {"idle", "reading"}
    /\ rjb[r].settled > 0
    /\ rjb[r].result.ok
BadField(r, key) == NotNonEmptyString(GetProp(rjb[r].result.value, key))
\* The response is a 400 whose error text contains word; nothing downstream.
Rejected400(r, word) ==
    /\ Len(effects[r]) = 2
    /\ effects[r][2].k = "res"
    /\ effects[r][2].status = 400
    /\ effects[r][2].key = "error"
    /\ Includes(effects[r][2].body, word)
    /\ Downstream(r) = {}
    /\ ~TaskStarted(r)

\* C7: an authenticated request whose body is any well-formed JSON value
\* (object or not, null included) with messageId missing, empty or no string
\* gets 400 with an error containing "messageId"; with messageId valid and
\* text missing, empty or no string, 400 with an error containing "text"; no
\* generation call and no delivery call is made.
C7_BadFieldsGet400 ==
    \A r \in Requests :
        ParsedBody(r) =>
            /\ BadField(r, KeyMessageId) => Rejected400(r, KeyMessageId)
            /\ (~BadField(r, KeyMessageId) /\ BadField(r, KeyText))
                  => Rejected400(r, KeyText)

\* The body null: the handler throws, no response is written.
C7_Witness ==
    \E r \in Requests :
        /\ rjb[r].result = ReadOk(JsNull)
        /\ hpc[r] = "rejected"
        /\ effects[r] = <<Listened>>

\* C8: a body is rejected as "payload too large" if and only if the running
\* total of the chunks received exceeds the cap (a body of exactly the cap is
\* accepted); once the total exceeds the cap the read is aborted, the response
\* is 400 {error:"payload too large"}, and the generation client is never
\* invoked for that request.
C8_TooLargeIffOverCap ==
    \A r \in Requests :
        /\ rjb[r].settled > 0 =>
              (rjb[r].result = ReadFail(ErrPayloadTooLarge)
                  <=> rjb[r].total > MAX_PAYLOAD_BYTES)
        /\ rjb[r].total > MAX_PAYLOAD_BYTES =>
              /\ rjb[r].settled > 0
              /\ stream[r].destroyed
              /\ rjb[r].listeners = {}
              /\ Len(rjb[r].chunks) <= MAX_PAYLOAD_BYTES
              /\ Downstream(r) = {} /\ ~TaskStarted(r)
              /\ hpc[r] # "reading" =>
                    /\ hpc[r] = "true"
                    /\ effects[r] =
                          <<Listened, sendJsonResponse(400, "error", ErrPayloadTooLarge)>>
        /\ (stream[r].ended /\ ~stream[r].errored /\ ~stream[r].destroyed
            /\ rjb[r].total = MAX_PAYLOAD_BYTES)
              => rjb[r].settled > 0 /\ rjb[r].result.ok

C8_Witness ==
    \E r \in Requests :
        /\ rjb[r].total = MAX_PAYLOAD_BYTES + 1
        /\ hpc[r] = "true"
        /\ effects[r] = <<Listened, sendJsonResponse(400, "error", ErrPayloadTooLarge)>>

\* Bodies that are empty or whitespace only, and bodies that are no JSON text.
EmptyTexts == {<<>>, <<Space, Newline>>}
MalformedTexts ==
    {<<LBrace, Str(KeyMessageId)>>, <<LBrace, RBrace, RBrace>>, <<Ch("?")>>,
     <<LBrace, Str(KeyMessageId), Colon, Str(IdA), Comma, RBrace>>,
     <<Space, Ch("?")>>}
\* The whole body was read, within the cap, and "end" resolved the read.
ReadToEnd(r) ==
    /\ stream[r].ended /\ ~stream[r].errored /\ ~stream[r].destroyed
    /\ rjb[r].total <= MAX_PAYLOAD_BYTES
    /\ hpc[r] # "reading"

\* C9: when the body read of an authenticated request ends within the cap, an
\* empty or whitespace-only body yields 400 {error:"empty payload"} and a body
\* that is no well-formed JSON yields 400 carrying the parser's error text; in
\* neither case is a background task started.
C9_EmptyAndMalformedGet400 ==
    \A r \in Requests :
        ReadToEnd(r) =>
            /\ rjb[r].chunks \in EmptyTexts =>
                  /\ effects[r] =
                        <<Listened, sendJsonResponse(400, "error", ErrEmptyPayload)>>
                  /\ task[r] = NoTask
            /\ rjb[r].chunks \in MalformedTexts =>
                  /\ ~rjb[r].result.ok
                  /\ rjb[r].result.error \in {SyntaxErrorEnd, SyntaxErrorToken}
                  /\ effects[r] =
                        <<Listened, sendJsonResponse(400, "error", rjb[r].result.error)>>
                  /\ task[r] = NoTask

C9_Witness ==
    \E r \in Requests :
        /\ ReadToEnd(r)
        /\ rjb[r].chunks = <<LBrace, Str(KeyMessageId)>>
        /\ effects[r] = <<Listened, sendJsonResponse(400, "error", SyntaxErrorEnd)>>

\* The read of request r is resolved as soon as the cap was exceeded or "end"
\* or "error" occurred, and it was resolved at most once.
ResolvedOnce(r) ==
    /\ rjb[r].settled <= 1
    /\ rjb[r].settled = 1 <=> rjb[r].resolved
    /\ (stream[r].flowing /\ (stream[r].ended \/ stream[r].errored))
          => rjb[r].settled = 1
    /\ rjb[r].total > MAX_PAYLOAD_BYTES => rjb[r].settled = 1
    /\ rjb[r].resolved => rjb[r].listeners = {}

\* Once resolved, no later event resolves again or changes the result.
ResultFixed(r) ==
    rjb[r].settled > 0 =>
        /\ rjb'[r].settled = rjb[r].settled
        /\ rjb'[r].result = rjb[r].result

\* C10: for any sequence and interleaving of data, end and error events,
\* readJsonBody resolves exactly once: the first of cap exceeded, end and
\* error fixes the result, later events (the error after the request was
\* destroyed included) neither change it nor resolve again, and once end or
\* error has occurred the read is resolved.
C10_ResolvesExactlyOnce ==
    /\ [](\A r \in Requests : ResolvedOnce(r))
    /\ [][\A r \in Requests : ResultFixed(r)]_vars

C10_Witness ==
    \E r \in Requests :
        /\ rjb[r].total > MAX_PAYLOAD_BYTES
        /\ stream[r].errored
        /\ stream[r].rest = <<>>
        /\ rjb[r].settled = 1
        /\ rjb[r].result = ReadFail(ErrPayloadTooLarge)

\* The responses written for request r, and the calls of processMessage.
ResponsesWritten(r) == {i \in 1..Len(effects[r]) : effects[r][i].k = "res"}
TaskCalls(r) == {i \in 1..Len(effects[r]) : effects[r][i].k = "task"}
TaskFailed(r) == task[r].outcome \in {"DeliveryFailed", "Failed"}
\* C11: an exception raised inside the background task after the
\* acknowledgment is caught and only logged: the response of the request stays
\* the one acknowledgment, the handler's result stays true, the rejection is
\* handled, and the next request can still be received.
C11_TaskErrorsOnlyLogged ==
    \A r \in Requests :
        /\ Cardinality(ResponsesWritten(r)) <= 1
        /\ TaskStarted(r) =>
              /\ hpc[r] = "true"
              /\ \A i \in ResponsesWritten(r) : effects[r][i] = Acknowledgment
        /\ TaskFailed(r) => task[r].caught
        /\ NextToArrive(r) => ENABLED Receive(r)

C11_Witness ==
    \E r \in Requests :
        /\ TaskFailed(r) /\ task[r].caught
        /\ Posts(r) # {}
        /\ r + 1 \in Requests
        /\ NextToArrive(r + 1)
        /\ ENABLED Receive(r + 1)

\* Request r passed authentication, body parsing and validation.
Validated(r) ==
    /\ IsMessagePost(r)
    /\ secret = SecretValue
    /\ request[r].auth = <<"B", "e", "a", "r", "e", "r", " ">> \o SecretValue
    /\ hpc[r] = "true"
    /\ rjb[r].settled > 0
    /\ rjb[r].result.ok
    /\ ~BadField(r, KeyMessageId)
    /\ ~BadField(r, KeyText)

\* C12: every request that passed authentication, body parsing and validation
\* has started exactly one background task, every other request none; two
\* valid requests with the same messageId each start their own task.
C12_OneTaskPerValidRequest ==
    \A r \in Requests :
        /\ Cardinality(TaskCalls(r)) = (IF Validated(r) THEN 1 ELSE 0)
        /\ Validated(r) <=> task[r] # NoTask
        /\ \A i \in TaskCalls(r) :
              effects[r][i].id = GetProp(rjb[r].result.value, KeyMessageId).v

C12_Witness ==
    \E r, q \in Requests :
        /\ r # q
        /\ Validated(r) /\ Validated(q)
        /\ task[r].messageId = task[q].messageId
        /\ task[r].pc \in {"generating", "dispatching"}
        /\ task[q].pc \in {"generating", "dispatching"}
        /\ Cardinality(TaskCalls(r)) = 1 /\ Cardinality(TaskCalls(q)) = 1


\* The call of callLlmProxy followed alone has returned.
Returned == llm.pc = "returned"

\* The answer to the call was a non-2xx status.
NonOk == llm.response.kind = "http" /\ ~HttpOk(llm.response.status)

\* C13: whatever the generation backend does (the call rejects, a non-2xx
\* status with any body, a 2xx answer without a body, a read error in the
\* middle of the stream, malformed frames), callLlmProxy returns a result and
\* throws nothing: the result is a success with its text, or a failure with
\* ok = false and an error message.
C13_NeverThrows ==
    Returned =>
        /\ ~llm.result.threw
        /\ llm.result.ok \in BOOLEAN
        /\ ~llm.result.ok => llm.result.content = <<>> /\ ~llm.result.hasUsage
        /\ llm.result.ok => llm.result.error = <<>> /\ ~llm.result.isBillingError
        /\ (llm.response.kind = "reject" \/ NonOk \/ ~llm.response.hasBody
            \/ llm.response.readError # NoMessage) => ~llm.result.ok

C13_Witness ==
    /\ Returned
    /\ llm.response.kind = "http" /\ HttpOk(llm.response.status)
    /\ llm.response.readError # NoMessage
    /\ llm.st.content # <<>>
    /\ ~llm.result.ok /\ ~llm.result.threw
    /\ llm.result.error = llm.response.readError

\* C14: after a non-2xx answer the failure is classified as billing exactly
\* when the status is 402 or the message extracted from the answer matches
\* the billing heuristics; every other failure is generic.
C14_BillingIffStatusOrHeuristics ==
    (Returned /\ NonOk) =>
        /\ ~llm.result.ok
        /\ llm.result.isBillingError <=>
              (llm.response.status = 402 \/ MatchesHeuristics(LlmErrorMessage(llm.response)))

C14_Witness ==
    /\ Returned /\ NonOk
    /\ llm.response.status = 500
    /\ MatchesHeuristics(LlmErrorMessage(llm.response))
    /\ llm.result.isBillingError

\* The call returned after reading the stream s to its end without an error.
ReadAll(s) ==
    /\ Returned
    /\ llm.response = LlmStream(<<s>>, NoMessage)

\* C15: for a stream of the first dialect (message_start with input_tokens 3,
\* one content_block_delta per fragment, message_delta with output_tokens 5)
\* the result is a success, its text is the fragments concatenated in order,
\* its inputTokens is 3 and its outputTokens is 5.
C15_DialectATextAndTokens ==
    \A frags \in FragmentsA :
        ReadAll(DialectA(frags)) =>
            /\ llm.result.ok
            /\ llm.result.content = Concat(frags, 1)
            /\ llm.result.hasUsage
            /\ llm.result.inputTokens = JsNumber(<<"3">>)
            /\ llm.result.outputTokens = JsNumber(<<"5">>)

\* The text is right and both counters are undefined.
C15_Witness ==
    /\ ReadAll(DialectA(<<TextHello, TextWorld>>))
    /\ llm.result.ok
    /\ llm.result.content = TextHello \o TextWorld
    /\ ~llm.result.hasUsage
    /\ llm.result.inputTokens = JsUndefined
    /\ llm.result.outputTokens = JsUndefined

\* C16: for a stream of the second dialect the text of the result is the
\* choices[0].delta.content fragments concatenated in order; a frame with a
\* top-level usage object sets inputTokens to its prompt_tokens (7) and
\* outputTokens to its completion_tokens (9), and without such a frame the
\* result carries no usage.
C16_DialectBTextAndTokens ==
    \A frags \in FragmentsB, usage \in BOOLEAN :
        ReadAll(DialectB(frags, usage)) =>
            /\ llm.result.ok
            /\ llm.result.content = Concat(frags, 1)
            /\ llm.result.hasUsage = usage
            /\ usage => /\ llm.result.inputTokens = JsNumber(<<"7">>)
                        /\ llm.result.outputTokens = JsNumber(<<"9">>)

C16_Witness ==
    /\ ReadAll(DialectB(<<TextHi, TextYo>>, TRUE))
    /\ llm.result.content = TextHi \o TextYo
    /\ llm.result.inputTokens = JsNumber(<<"7">>)
    /\ llm.result.outputTokens = JsNumber(<<"9">>)

\* The stream of the call was read to its end without an error.
StreamRead ==
    /\ Returned
    /\ llm.response.kind = "http" /\ HttpOk(llm.response.status)
    /\ llm.response.hasBody
    /\ llm.response.readError = NoMessage

\* C17: however the bytes of a stream are cut into chunks, also inside a line
\* or inside the "data: " prefix of a line, the result (text and token
\* counters) is the result for the stream received as one chunk; a frame cut
\* in two contributes its text once.
C17_ChunkingIndependent ==
    StreamRead =>
        /\ llm.result = callLlmProxy(llm.response)
        /\ llm.rest = <<>>

C17_Witness ==
    /\ StreamRead
    /\ llm.midLine /\ llm.midPrefix
    /\ llm.response = LlmStream(<<DialectB(<<TextHi, TextYo>>, TRUE)>>, NoMessage)
    /\ llm.result.content = TextHi \o TextYo
    /\ llm.result.hasUsage

\* The task of request r has received the answer of the generation backend.
Answered(r, status) == task[r].pc \in {"sendLast", "done"} /\ task[r].status = status

\* C18: when the generation backend answers 402, whatever the body (an error
\* message with or without a billing keyword, no JSON, empty, null), the
\* task's delivery for that trigger carries the purchase prompt with
\* errorType "billing" and action "purchase_credits".
C18_Status402DeliversBilling ==
    \A r \in Requests :
        Answered(r, 402) =>
            /\ Cardinality(Posts(r)) = 1
            /\ \A i \in Posts(r) :
                  /\ effects[r][i].id = task[r].messageId
                  /\ effects[r][i].body = BillingContent
                  /\ effects[r][i].meta.errorType = "billing"
                  /\ effects[r][i].meta.action = "purchase_credits"

C18_Witness ==
    \E r \in Requests :
        /\ Answered(r, 402)
        /\ ~task[r].keyword
        /\ task[r].outcome = "Delivered"
        /\ \E i \in Posts(r) : effects[r][i] = sendBillingErrorResponse(task[r].messageId)

\* C19: when the generation backend answers 500 with an error message that
\* has no billing keyword, the task's delivery for that trigger carries the
\* generic apology with errorType "error" and no action.
C19_Status500DeliversGeneric ==
    \A r \in Requests :
        (Answered(r, 500) /\ ~task[r].keyword) =>
            /\ Cardinality(Posts(r)) = 1
            /\ \A i \in Posts(r) :
                  /\ effects[r][i].id = task[r].messageId
                  /\ effects[r][i].body = GenericContent
                  /\ effects[r][i].meta.errorType = "error"
                  /\ effects[r][i].meta.action = ""

C19_Witness ==
    \E r \in Requests :
        /\ Answered(r, 500)
        /\ ~task[r].keyword
        /\ task[r].outcome = "Delivered"
        /\ \E i \in Posts(r) : effects[r][i].body = GenericContent

\* The call of sendResponse followed alone has settled.
Settled == send.pc = "settled"

\* The body r parsed from an acknowledgment is an object (or another value
\* with properties) whose status is "saved".
SavedAck(r) ==
    /\ r.ok
    /\ r.value.t \notin {"null", "undefined"}
    /\ GetProp(r.value, KeyStatus) = JsString(StatusSaved)

\* C20: a call of sendResponse issues one POST, before and after it settles;
\* it returns normally exactly when the answer is 2xx and its body has status
\* "saved", and it throws on every other answer: fetch rejects, a non-2xx
\* status, a 2xx body without status, with another status, or no JSON.
C20_OnePostOkIffSaved ==
    /\ send.pc \in {"posting", "settled"} => send.posts = 1
    /\ send.pc = "idle" => send.posts = 0
    /\ Settled =>
          /\ send.result.ok <=>
                /\ send.response.kind = "http"
                /\ HttpOk(send.response.status)
                /\ SavedAck(JsonParse(send.response.body))
          /\ ~send.result.ok => send.result.error # <<>>
          /\ ~ENABLED SendCall

C20_Witness ==
    /\ Settled
    /\ send.posts = 1
    /\ send.response.kind = "http"
    /\ HttpOk(send.response.status)
    /\ JsonParse(send.response.body).ok
    /\ ~SavedAck(JsonParse(send.response.body))
    /\ ~send.result.ok

\* The five substrings the classifier is specified to look for.
ClaimedKeywords ==
    {<<"4", "0", "2">>,
     <<"i", "n", "s", "u", "f", "f", "i", "c", "i", "e", "n", "t", " ", "c", "r",
       "e", "d", "i", "t", "s">>,
     <<"i", "n", "s", "u", "f", "f", "i", "c", "i", "e", "n", "t", "_", "c", "r",
       "e", "d", "i", "t", "s">>,
     <<"b", "i", "l", "l", "i", "n", "g">>,
     <<"p", "a", "y", "m", "e", "n", "t", " ", "r", "e", "q", "u", "i", "r", "e", "d">>}

\* C21: isBillingError(m) is true exactly when m, in lower case, contains one
\* of "402", "insufficient credits", "insufficient_credits", "billing",
\* "payment required"; it is false for an undefined and for an empty message;
\* the letter case of m does not change the result.
C21_ClassifierMatchesKeywords ==
    classify.done =>
        /\ classify.result <=>
              /\ classify.message # NoMessage
              /\ \E k \in ClaimedKeywords : Includes(ToLowerCase(classify.message), k)
        /\ classify.message \in {NoMessage, <<>>} => ~classify.result
        /\ classify.message # NoMessage =>
              /\ isBillingError(Upper(classify.message)) = classify.result
              /\ isBillingError(ToLowerCase(classify.message)) = classify.result

C21_Witness ==
    /\ classify.done
    /\ classify.message = MsgAborted \o <<":", " ">> \o Upper(KwPaymentRequired) \o <<".">>
    /\ classify.result

\* The generation calls of request r's task: callLlmProxy, or the dispatch
\* through the agent.
Generations(r) ==
    {i \in 1..Len(effects[r]) : effects[r][i].k \in {"gen", "dispatch"}}

\* C22: within one task no delivery is attempted while its generation is in
\* flight: while the task awaits the generation call it has issued no POST,
\* and every POST comes after the generation call in the task's order.
C22_GenerationBeforeDelivery ==
    \A r \in Requests :
        /\ task[r].pc \in {"generating", "dispatching"} =>
              Posts(r) = {} /\ Generations(r) # {}
        /\ \A i \in Posts(r), j \in Generations(r) : j < i
        /\ Posts(r) # {} => task[r].pc \in {"sendInTry", "sendLast", "done"}

C22_Witness ==
    \E r \in Requests :
        /\ Generations(r) # {}
        /\ Posts(r) # {}
        /\ task[r].pc = "sendLast"
        /\ task[r].generated = "text"
        /\ \E q \in Requests : q # r /\ task[q].pc \in {"generating", "dispatching"}

\* Request r is the health check: GET with the pathname /health.
HealthCheck(r) == request[r].method = "GET" /\ request[r].path = "/health"

\* The standalone server has finished with request r.
Served(r) == standalone /\ hpc[r] \in {"true", "fallthrough", "caught"}

\* The one response request r received has this status and this key and text.
Answered1(r, status, key, body) ==
    \A i \in ResponsesWritten(r) :
        /\ effects[r][i].status = status
        /\ effects[r][i].body = body
        /\ effects[r][i].key \in key

\* C24: in the standalone server every request receives exactly one response;
\* GET /health receives 200 with status "ok"; a request that is neither POST
\* /api/message nor the health check receives 404; and a handler that
\* returned false has written nothing.
C24_StandaloneOneResponse ==
    \A r \in Requests :
        /\ Cardinality(ResponsesWritten(r)) <= 1
        /\ Served(r) => Cardinality(ResponsesWritten(r)) = 1
        /\ hpc[r] = "false" => effects[r] = <<>>
        /\ (Served(r) /\ HealthCheck(r)) =>
              Answered1(r, 200, {"status", "status+plugin"}, StatusOk)
        /\ (Served(r) /\ ~HealthCheck(r) /\ ~IsMessagePost(r)) =>
              Answered1(r, 404, {"error"}, ErrNotFound)

\* The direct version answering GET /health?... with 404.
C24_Witness ==
    \E r \in Requests :
        /\ monitor = "direct"
        /\ Served(r) /\ HealthCheck(r)
        /\ request[r].query
        /\ hpc[r] = "fallthrough"
        /\ Cardinality(ResponsesWritten(r)) = 1
        /\ Answered1(r, 404, {"error"}, ErrNotFound)

\* The claim with the health check read as the exact URL /health.
C24_ExactUrlReading ==
    \A r \in Requests :
        (Served(r) /\ ~(HealthCheck(r) /\ ~request[r].query) /\ ~IsMessagePost(r)) =>
            Answered1(r, 404, {"error"}, ErrNotFound)

\* Everything the claim says but the status of a health check with a query.
C24_WithoutQueries ==
    \A r \in Requests :
        /\ Cardinality(ResponsesWritten(r)) <= 1
        /\ Served(r) => Cardinality(ResponsesWritten(r)) = 1
        /\ hpc[r] = "false" => effects[r] = <<>>
        /\ (Served(r) /\ HealthCheck(r) /\ ~request[r].query) =>
              Answered1(r, 200, {"status", "status+plugin"}, StatusOk)
        /\ (Served(r) /\ ~HealthCheck(r) /\ ~IsMessagePost(r)) =>
              Answered1(r, 404, {"error"}, ErrNotFound)

\* The task of request r has ended: delivered, delivery failed, silent (no
\* text to deliver), or failed before its first call; the two failures are
\* rejections of processMessage, logged by the handler's .catch.
Terminal(r) ==
    /\ task[r].pc = "done"
    /\ task[r].outcome \in {"Delivered", "DeliveryFailed", "Silent", "Failed"}

\* The connection of request r broke or was closed.
Closed(r) == stream[r].errored

TriggerId(r) == GetProp(rjb[r].result.value, KeyMessageId).v

\* Generation succeeded for request r: its stream was sent to the end (in the
\* agent version: the dispatch returned with text).
Succeeded(r) == task[r].streamText # NoMessage

\* C25: every delivery POST carries the messageId of the trigger whose task
\* issued it and, when generation succeeded, the whole text of that trigger's
\* stream: not a part of it, not the text of another trigger.
C25_DeliveryCarriesOwnText ==
    \A r \in Requests :
        \A i \in Posts(r) :
            /\ effects[r][i].id = TriggerId(r)
            /\ Succeeded(r) => effects[r][i].body = task[r].streamText

\* In the agent version the delivery of the text fails and a second POST
\* carries the apology.
C25_Witness ==
    \E r \in Requests :
        /\ monitor = "agent"
        /\ Succeeded(r)
        /\ \E i, j \in Posts(r) :
              /\ i < j
              /\ effects[r][i].body = task[r].streamText
              /\ effects[r][j].body = GenericContent
              /\ effects[r][j].id = TriggerId(r)

\* The claim for the first POST of every task, and for every POST of the
\* direct version.
C25_FirstDelivery ==
    \A r \in Requests :
        \A i \in Posts(r) :
            /\ effects[r][i].id = TriggerId(r)
            /\ (Succeeded(r) /\ (monitor = "direct" \/ \A j \in Posts(r) : i <= j)) =>
                  effects[r][i].body = task[r].streamText

\* Two triggers in flight, each delivered its own text.
C25_TwoTriggers ==
    \E r, q \in Requests :
        /\ monitor = "direct"
        /\ Succeeded(r) /\ Succeeded(q)
        /\ task[r].streamText = TextHello \o TextWorld
        /\ task[q].streamText = TextHi \o TextYo
        /\ TriggerId(r) # TriggerId(q)
        /\ Posts(r) # {} /\ Posts(q) # {}


\* The text and the counters of the call: the result's once it returned a
\* success, the parser's locals while it reads.
CallText == IF Returned /\ llm.result.ok THEN llm.result.content ELSE llm.st.content
CallInput == IF Returned /\ llm.result.ok THEN llm.result.inputTokens ELSE llm.st.inputTokens
CallOutput == IF Returned /\ llm.result.ok THEN llm.result.outputTokens ELSE llm.st.outputTokens

\* C26: the [DONE] line contributes no text and no token counts, and once a
\* read has processed it, nothing read later from the same stream changes
\* the accumulated text or the token counters: they stay what they were at
\* the end of that read, up to and including the returned result.
C26_NothingAfterDone ==
    (llm.atDone.read /\ llm.pc \in {"reading", "returned"}
       /\ (Returned => llm.result.ok)) =>
        /\ CallText = llm.atDone.content
        /\ CallInput = llm.atDone.inputTokens
        /\ CallOutput = llm.atDone.outputTokens

\* A read ended with the [DONE] line when the text was "Hello"; the frame
\* after it was read and the result carries "Hello world".
C26_Witness ==
    /\ Returned
    /\ llm.response = LlmStream(
          <<FrameBlockDelta(TextHello) \o FrameDone \o FrameBlockDelta(TextWorld)>>,
          NoMessage)
    /\ llm.atDone.read
    /\ llm.atDone.content = TextHello
    /\ llm.result.ok
    /\ llm.result.content = TextHello \o TextWorld

\* The [DONE] line itself changes nothing: in the streams that end with it,
\* the text and the counters at the end of the read that processed it are
\* those of the result.
C26_DoneLast ==
    (llm.atDone.read /\ llm.pc \in {"reading", "returned"}
       /\ (Returned => llm.result.ok)
       /\ llm.response.chunks \notin {<<s>> : s \in AfterDoneStreams}) =>
        /\ CallText = llm.atDone.content
        /\ CallInput = llm.atDone.inputTokens
        /\ CallOutput = llm.atDone.outputTokens

\* The counters change after [DONE] as well.
C26_CountersAfterDone ==
    /\ Returned
    /\ llm.atDone.read
    /\ llm.atDone.inputTokens = JsUndefined
    /\ llm.result.ok
    /\ llm.result.inputTokens = JsNumber(<<"7">>)

\* So does the text of a last line that is not terminated.
C26_TailAfterDone ==
    /\ Returned
    /\ llm.atDone.read
    /\ llm.atDone.content = TextHi
    /\ llm.result.ok
    /\ llm.result.content = TextHi \o TextYo


\* C27: once a read has left inputTokens (or outputTokens) set to a number,
\* the counter stays a number through every later read and in the returned
\* result, and a stream in which some frame set a counter returns a usage.
C27_CountersNeverLost ==
    (llm.pc \in {"reading", "returned"} /\ (Returned => llm.result.ok)) =>
        /\ llm.sawInput => CallInput.t = "number"
        /\ llm.sawOutput => CallOutput.t = "number"
        /\ (Returned /\ (llm.sawInput \/ llm.sawOutput)) => llm.result.hasUsage

\* The stream of the first dialect: a read ended after message_start with
\* inputTokens 3, a later read processed message_delta, and the result has
\* no usage at all.
C27_Witness ==
    /\ ReadAll(DialectA(<<TextHello>>))
    /\ llm.sawInput
    /\ llm.result.ok
    /\ llm.result.inputTokens = JsUndefined
    /\ ~llm.result.hasUsage

\* The counters survive in every stream without a message_delta frame.
C27_WithoutMessageDelta ==
    (llm.pc \in {"reading", "returned"} /\ (Returned => llm.result.ok)
       /\ llm.response.chunks \notin {<<DialectA(f)>> : f \in FragmentsA}) =>
        /\ llm.sawInput => CallInput.t = "number"
        /\ llm.sawOutput => CallOutput.t = "number"
        /\ (Returned /\ (llm.sawInput \/ llm.sawOutput)) => llm.result.hasUsage

\* A usage frame was read and its counters are in the result.
C27_UsageKept ==
    /\ ReadAll(DialectB(<<TextHi>>, TRUE))
    /\ llm.sawInput /\ llm.sawOutput
    /\ llm.result.hasUsage


\* The read of trigger r's stream failed after frames with text were read.
ReadFailedMidStream(r) ==
    /\ task[r].pc \in {"sendLast", "done"}
    /\ task[r].partial \notin {NoMessage, <<>>}

\* C28: when a read of the stream fails after some text has been
\* accumulated, callLlmProxy returns a failure without text, whose error
\* message holds none of the partial text, and every delivery of that
\* trigger is an error message (errorType set, canned content), never the
\* partial text.
C28_NoPartialOutcome ==
    \A r \in Requests :
        ReadFailedMidStream(r) =>
            /\ task[r].pc = "sendLast" =>
                  task[r].generated \in {FailureKind(TRUE), FailureKind(FALSE)}
            /\ task[r].fullResponse = <<>>
            /\ Posts(r) # {}
            /\ \A i \in Posts(r) :
                  /\ effects[r][i].id = task[r].messageId
                  /\ effects[r][i].meta.errorType \in {"error", "billing"}
                  /\ effects[r][i].body \in {GenericContent, BillingContent}
                  /\ ~Includes(effects[r][i].body, task[r].partial)

\* The failure returned for such a stream: no text, and an error message
\* that holds none of the partial text.
C28_FailureWithoutText ==
    \A response \in LlmResponses :
        PartialText(response) \notin {NoMessage, <<>>} =>
            /\ ~callLlmProxy(response).ok
            /\ callLlmProxy(response).content = <<>>
            /\ callLlmProxy(response).error = response.readError
            /\ ~Includes(callLlmProxy(response).error, PartialText(response))

\* The read failed after "Hello" was accumulated and the trigger's one
\* delivery is the generic apology.
C28_Witness ==
    \E r \in Requests :
        /\ ReadFailedMidStream(r)
        /\ task[r].partial = TextHello
        /\ task[r].pc = "done"
        /\ Cardinality(Posts(r)) = 1
        /\ \A i \in Posts(r) : effects[r][i].body = GenericContent


\* The complete lines processed by the read that this step makes: the
\* buffer and the bytes taken from the body, less what stays in the buffer.
LinesOfStep ==
    SubSeq(llm.st.buffer \o llm.rest, 1,
           Len(llm.st.buffer) + (Len(llm.rest) - Len(llm'.rest)) - Len(llm'.st.buffer))

\* The stream is made of whole frames of the two dialects, in any mix: it
\* has no frame of another type that carries delta.text, no frame cut
\* before its end and no frame without its prefix.
DialectStreams ==
    {DialectA(f) : f \in FragmentsA}
    \cup {DialectB(f, u) : f \in FragmentsB, u \in BOOLEAN}
    \cup MixedStreams
    \cup AfterDoneStreams
    \cup {FrameBlockDelta(TextHello), FrameSimpleDelta(TextHello), FrameChoice(TextHi),
          DropLast(FrameBlockDelta(TextHello), 2), DropLast(FrameSimpleDelta(TextHello), 2),
          DropLast(FrameChoice(TextHi), 2), CleanStream, <<>>}
DialectFramesOnly == \E s \in DialectStreams : llm.response.chunks = <<s>>

\* A read appends the fragments of its frames, in order, to the text; the
\* end of the stream appends the fragment of an unterminated last line.
AppendsFragments ==
    DialectFramesOnly =>
        /\ (llm.pc = "reading" /\ llm'.pc = "reading") =>
              llm'.st.content = llm.st.content \o FragmentsFrom(LinesOfStep, 1)
        /\ (llm.pc = "reading" /\ llm'.pc = "returned" /\ llm'.result.ok) =>
              llm'.result.content = llm.st.content \o FragmentsFrom(llm.st.buffer, 1)

\* The text so far begins the text of the whole stream, and the result is
\* the text of the whole stream.
PrefixOfFinalText ==
    (llm.pc \in {"reading", "returned"} /\ llm.response.readError = NoMessage
       /\ DialectFramesOnly /\ (Returned => llm.result.ok)) =>
        /\ StartsWith(StreamText(llm.response), CallText)
        /\ Returned => CallText = StreamText(llm.response)

\* C29: for any mix of frames of the two dialects the text is accumulated
\* append-only and in arrival order: every read leaves the previous text
\* with the fragments of its frames appended, so the text after any read is
\* a prefix of the final text, and the final text is all fragments of the
\* stream in arrival order, none reordered, dropped or duplicated.
C29_AppendOnlyInOrder == []PrefixOfFinalText /\ [][AppendsFragments]_vars

\* A stream mixing both dialects was read in several reads, one of which
\* ended inside a line, and the result is its three fragments in order.
C29_Witness ==
    /\ ReadAll(FrameBlockDelta(TextHello) \o FrameChoice(TextHi)
               \o FrameBlockDelta(TextWorld) \o FrameDone)
    /\ llm.midLine
    /\ llm.result.ok
    /\ llm.result.content = TextHello \o TextHi \o TextWorld

\* The same fragment twice in a row is kept twice.
C29_NoDedup ==
    /\ ReadAll(FrameChoice(TextHi) \o FrameChoice(TextHi) \o FrameBlockDelta(TextHello))
    /\ llm.result.content = TextHi \o TextHi \o TextHello


\* The handler is done with the POST /api/message r and wrote the one
\* response given and nothing else but the body listener.
Decided(r, status, body) ==
    /\ hpc[r] = "true"
    /\ Cardinality(ResponsesWritten(r)) = 1
    /\ \A i \in ResponsesWritten(r) :
          /\ effects[r][i].status = status
          /\ effects[r][i].key = "error"
          /\ effects[r][i].body = body
    /\ Downstream(r) = {}
    /\ ~TaskStarted(r)

\* What fails in the request r, whatever else fails in it as well.
NoSecret == secret \in {NoMessage, <<>>}
BadCredential(r) == request[r].auth # BearerPrefix \o secret
BodyOf(r) == rjb[r].result.value

C30_UnauthorizedInvalidBody ==
    \E r \in Requests :
        /\ IsMessagePost(r)
        /\ ~NoSecret /\ BadCredential(r)
        /\ stream[r].rest = <<Ch("?")>>
        /\ Decided(r, 401, ErrUnauthorized)

\* No secret, a wrong credential and a body that is no JSON: 500.
C30_MisconfiguredAllWrong ==
    \E r \in Requests :
        /\ IsMessagePost(r)
        /\ NoSecret /\ request[r].auth = BearerPrefix \o WrongSecret
        /\ stream[r].rest = <<Ch("?")>>
        /\ Decided(r, 500, ErrServerMisconfigured)

\* A body that cannot be parsed gets the 400 of the read.
C30_ParseErrorFirst ==
    \E r \in Requests :
        /\ IsMessagePost(r)
        /\ ~NoSecret /\ ~BadCredential(r)
        /\ rjb[r].settled > 0 /\ ~rjb[r].result.ok
        /\ \E i \in ResponsesWritten(r) : effects[r][i].status = 400


\* The task of request r has been started and is not over.
InFlight(r) == task[r].pc \notin {"none", "done"}

\* C31: the tasks of different triggers are not serialized.  While the task
\* of one request is in flight the next request can arrive and a request
\* whose body has been read can be handled, and every task that awaits its
\* generation, its dispatch or its delivery can resume whatever the other
\* tasks await: neither order of two tasks' generation returns or
\* deliveries is excluded.
C31_NotSerialized ==
    \A a, b \in Requests :
        (a # b /\ ProcessAlive /\ InFlight(a)) =>
            /\ (hpc[b] = "idle" /\ \A q \in 1..(b - 1) : hpc[q] # "idle")
                  => ENABLED Receive(b)
            /\ (hpc[b] = "reading" /\ rjb[b].settled > 0) => ENABLED HandlerResume(b)
            /\ task[b].pc = "generating" => ENABLED GenerationReturn(b)
            /\ task[b].pc = "dispatching" => ENABLED DispatchReturn(b)
            /\ task[b].pc \in {"sendInTry", "sendLast"} => ENABLED SendReturn(b)

\* A was acknowledged first, B second, both with the same messageId; B's
\* delivery has been attempted and A still awaits its generation call.
C31_Witness ==
    \E a, b \in Requests :
        /\ Validated(a) /\ Validated(b)
        /\ task[a].seq = 1 /\ task[b].seq = 2
        /\ task[a].messageId = task[b].messageId
        /\ task[a].pc = "generating" /\ Posts(a) = {}
        /\ Posts(b) # {}

\* The generation calls of A and B overlap.
C31_GenerationsOverlap ==
    \E a, b \in Requests :
        /\ task[a].seq = 1 /\ task[b].seq = 2
        /\ task[a].messageId # task[b].messageId
        /\ task[a].pc = "generating" /\ task[b].pc = "generating"

\* The same in the version that dispatches to the agent.
C31_AgentReordered ==
    \E a, b \in Requests :
        /\ monitor = "agent"
        /\ task[a].seq = 1 /\ task[b].seq = 2
        /\ task[a].pc = "dispatching" /\ Posts(a) = {}
        /\ Posts(b) # {}


\* The text generated for trigger r alone: the text of its own stream, or
\* of the blocks delivered to its own task.
OwnText(r) == IF monitor = "direct" THEN task[r].streamText ELSE task[r].ownText

\* The contents of the canned deliveries.
CannedContents == {GenericContent, BillingContent, UnavailableContent}

\* C32: concurrent triggers do not interfere.  Whatever the tasks of other
\* triggers do in between, every delivery of a trigger carries that
\* trigger's messageId, and its content is a canned message or the text
\* generated for that trigger alone; while a task accumulates blocks, what
\* it has accumulated is what was delivered to it.
C32_NoInterference ==
    \A r \in Requests :
        /\ task[r].pc \in {"dispatching", "sendInTry"} =>
              task[r].fullResponse = task[r].ownText
        /\ \A i \in Posts(r) :
              /\ effects[r][i].id = TriggerId(r)
              /\ effects[r][i].id = task[r].messageId
              /\ effects[r][i].body \in CannedContents \cup {OwnText(r)}

\* Two tasks dispatch together; one got one block and posts "hi", the other
\* got two blocks and has "hihi" so far.
C32_Witness ==
    \E a, b \in Requests :
        /\ monitor = "agent"
        /\ task[a].pc = "sendInTry"
        /\ \E i \in Posts(a) : effects[a][i].body = TextHi
        /\ task[b].pc = "dispatching"
        /\ task[b].fullResponse = TextHi \o TextHi

\* Two streams read together, each trigger delivering the text of its own.
C32_DirectTogether ==
    \E a, b \in Requests :
        /\ monitor = "direct"
        /\ task[a].seq = 1 /\ task[b].seq = 2
        /\ task[a].pc = "sendLast" /\ task[b].pc = "sendLast"
        /\ Succeeded(a) /\ Succeeded(b)
        /\ task[a].streamText # task[b].streamText
        /\ \E i \in Posts(a) : effects[a][i].body = task[a].streamText
        /\ \E i \in Posts(b) : effects[b][i].body = task[b].streamText


\* The promise of the handler for request r rejected.
HandlerRejected(r) == hpc[r] \in {"rejected", "caught"}

\* C33: handleFirebaseWebhookRequest never rejects: whatever the method,
\* the path, the headers and the body (a well-formed JSON body that is no
\* object, such as null, included) it resolves to a boolean, and when it
\* resolved to true it has written exactly one response.
C33_HandlerNeverRejects ==
    \A r \in Requests :
        /\ ~HandlerRejected(r)
        /\ hpc[r] \in {"idle", "reading", "true", "false", "fallthrough"}
        /\ hpc[r] = "true" => Cardinality(ResponsesWritten(r)) = 1

\* The body null with the right credential: the handler rejected without
\* writing a response, and the catch of the standalone server answered 500.
C33_Witness ==
    \E r \in Requests :
        /\ standalone
        /\ IsMessagePost(r)
        /\ request[r].auth = BearerPrefix \o secret
        /\ rjb[r].result.ok
        /\ rjb[r].result.value = JsNull
        /\ hpc[r] = "caught"
        /\ Answered1(r, 500, {"error"}, ErrInternal)
        /\ Cardinality(ResponsesWritten(r)) = 1

\* With any body but null the handler resolves, and to true with exactly
\* one response.
C33_ExceptNull ==
    \A r \in Requests :
        /\ HandlerRejected(r) => rjb[r].result.ok /\ PropThrows(rjb[r].result.value)
        /\ hpc[r] = "true" => Cardinality(ResponsesWritten(r)) = 1


\* C34: for every frame, the result of a stream whose last line is that
\* frame without a newline after it is the result of the stream in which
\* the frame is followed by its newlines: the same text and the same token
\* counters.
C34_TailAsInLoop ==
    \A f \in LastFrames :
        ReadAll(DropLast(f, 2)) =>
            llm.result = callLlmProxy(LlmStream(<<f>>, NoMessage))

\* The usage frame as the unterminated last line: the result has no usage,
\* while the terminated frame yields 7 and 9.
C34_Witness ==
    /\ ReadAll(DropLast(FrameUsage(<<"7">>, <<"9">>), 2))
    /\ llm.result.ok
    /\ ~llm.result.hasUsage
    /\ callLlmProxy(LlmStream(<<FrameUsage(<<"7">>, <<"9">>)>>, NoMessage)).hasUsage

\* A frame of another type with delta.text: ignored in the loop, appended
\* as the unterminated last line.
C34_TypedTextDiffers ==
    /\ ReadAll(DropLast(FrameTypedText(TextYo), 2))
    /\ llm.result.content = TextYo
    /\ callLlmProxy(LlmStream(<<FrameTypedText(TextYo)>>, NoMessage)).content = <<>>

\* The text frames of both dialects yield the same result either way.
C34_TextFramesAgree ==
    \A f \in {FrameBlockDelta(TextHello), FrameSimpleDelta(TextHello),
              FrameChoice(TextHi)} :
        ReadAll(DropLast(f, 2)) =>
            llm.result = callLlmProxy(LlmStream(<<f>>, NoMessage))

\* A text frame read without its newline.
C34_TextFrameRead ==
    /\ ReadAll(DropLast(FrameBlockDelta(TextHello), 2))
    /\ llm.result.content = TextHello


\* The stream was read to its end and left an unterminated "data: " line in
\* the buffer (the locals st are those before the line was interpreted).
BufferedDataLine == StreamRead /\ StartsWith(llm.st.buffer, DataPrefix)

\* The text fragments of the buffered line when its payload is a JSON value,
\* nothing when it is not.
TailFragment ==
    IF JsonParse(Slice(llm.st.buffer, 6)).ok
    THEN FragmentsFrom(llm.st.buffer, 1) ELSE <<>>

\* C35: when the stream ends with a buffered "data: " line without a
\* newline, the call does not fail, and the text of the result is the text
\* accumulated before with the line's fragment appended once when the line
\* is valid JSON carrying one, and unchanged otherwise.
C35_TailParsedOnce ==
    BufferedDataLine =>
        /\ llm.result.ok
        /\ llm.result.content = llm.st.content \o TailFragment

\* A choices frame without its newline, cut from the bytes before it by a
\* read boundary: its fragment is in the result once.
C35_Witness ==
    /\ BufferedDataLine
    /\ llm.response = LlmStream(<<DropLast(FrameChoice(TextHi), 2)>>, NoMessage)
    /\ llm.midLine
    /\ llm.st.content = <<>>
    /\ llm.result.ok
    /\ llm.result.content = TextHi

\* A last line cut before its closing brace is discarded, the text kept.
C35_BrokenDiscarded ==
    /\ BufferedDataLine
    /\ llm.response = LlmStream(<<DropLast(FrameChoice(TextHi), 3)>>, NoMessage)
    /\ llm.result.ok
    /\ llm.result.content = <<>>

\* The last line null is discarded, the text before it kept.
C35_NullDiscarded ==
    /\ BufferedDataLine
    /\ llm.st.buffer = DataPrefix \o <<Null>>
    /\ llm.result.ok
    /\ llm.result.content = TextHello


\* C36: a line without the "data: " prefix, and a "data: " line whose
\* payload is no JSON or is a JSON value that is no object (null, a number,
\* a string, an array), is skipped without failing the call: the result of
\* a stream with such a line between or before its frames is the result of
\* the stream without the line, text and counters alike.
C36_NoiseSkipped ==
    \A n \in NoiseLines :
        (ReadAll(NoiseBetween(n)) \/ ReadAll(NoiseFirst(n))) =>
            /\ llm.result.ok
            /\ llm.result = callLlmProxy(LlmStream(<<CleanStream>>, NoMessage))

\* The line "data: null" stood between a text frame and a usage frame, a
\* read ended right after it, and the result has the text and both counters.
C36_Witness ==
    /\ ReadAll(NoiseBetween(DataPrefix \o <<Null, Newline>>))
    /\ llm.midLine
    /\ llm.result.ok
    /\ llm.result.content = TextHi
    /\ llm.result.inputTokens = JsNumber(<<"7">>)
    /\ llm.result.outputTokens = JsNumber(<<"9">>)

\* A text frame without the prefix contributes nothing.
C36_UnprefixedSkipped ==
    /\ ReadAll(NoiseBetween(Slice(FrameChoice(TextYo), Len(DataPrefix))))
    /\ llm.result.content = TextHi


\* The call returned after fetch rejected, or after a read of the body
\* rejected; the message of the exception.
TransportFailed ==
    /\ Returned
    /\ \/ llm.response.kind = "reject"
       \/ /\ llm.response.kind = "http" /\ HttpOk(llm.response.status)
          /\ llm.response.hasBody /\ llm.response.readError # NoMessage
TransportMessage ==
    IF llm.response.kind = "reject" THEN llm.response.msg ELSE llm.response.readError

\* C37: a transport exception of the initial call or of a read of the
\* stream yields a failure whose message is the exception's message, whose
\* classification is billing exactly when isBillingError of that message
\* holds, and which carries no HTTP status.
C37_TransportFailure ==
    TransportFailed =>
        /\ ~llm.result.ok /\ ~llm.result.threw
        /\ llm.result.error = TransportMessage
        /\ llm.result.isBillingError = isBillingError(TransportMessage)
        /\ llm.result.statusCode = 0

\* A read rejected with "Payment Required" after text had been read: the
\* failure is classified billing and has no status.
C37_Witness ==
    /\ TransportFailed
    /\ llm.response.kind = "http"
    /\ llm.st.content # <<>>
    /\ llm.result.error = MsgPaymentRequired
    /\ llm.result.isBillingError
    /\ llm.result.statusCode = 0

\* fetch rejected with "fetch failed": a generic failure.
C37_FetchGeneric ==
    /\ TransportFailed
    /\ llm.response.kind = "reject"
    /\ llm.result.error = MsgFetchFailed
    /\ ~llm.result.isBillingError


\* The generation requests issued for trigger r.
GenerationCalls(r) == {i \in 1..Len(effects[r]) : effects[r][i].k = "gen"}

\* C38: after a successful generation the model identifier in the metadata
\* of the trigger's delivery is the model identifier sent in the trigger's
\* generation request.
C38_ReportedModelIsRequested ==
    \A r \in Requests :
        (monitor = "direct" /\ Succeeded(r)) =>
            \A i \in Posts(r), g \in GenerationCalls(r) :
                effects[r][i].meta.model = effects[r][g].meta.model

\* The request went out with claude-haiku-4-5-20251001 and the delivery of
\* the generated text reports claude-sonnet-4-20250514.
C38_Witness ==
    \E r \in Requests :
        /\ monitor = "direct"
        /\ Succeeded(r)
        /\ \E g \in GenerationCalls(r) :
              effects[r][g].meta.model = "claude-haiku-4-5-20251001"
        /\ \E i \in Posts(r) :
              /\ effects[r][i].body = task[r].streamText
              /\ effects[r][i].meta.model = "claude-sonnet-4-20250514"


\* The dispatches to the agent issued for trigger r.
DispatchCalls(r) == {i \in 1..Len(effects[r]) : effects[r][i].k = "dispatch"}

\* The task of r was started by the agent version while the runtime was
\* not set.
StartedWithoutRuntime(r) ==
    monitor = "agent" /\ task[r].pc # "none" /\ ~task[r].hadRuntime

\* Such a task dispatches nothing and makes one delivery, the error payload
\* with the message "Service temporarily unavailable. Please try again.".
UnavailableOnly ==
    \A r \in Requests :
        StartedWithoutRuntime(r) =>
            /\ DispatchCalls(r) = {}
            /\ GenerationCalls(r) = {}
            /\ Cardinality(Posts(r)) = 1
            /\ \A i \in Posts(r) :
                  effects[r][i] = sendErrorResponse(task[r].messageId, UnavailableContent)

\* C39: a validated trigger processed while the runtime has not been set
\* gets no agent dispatch and exactly one delivery, the error payload with
\* the "Service temporarily unavailable" message; and once the runtime has
\* been set it stays set (hasFirebaseRuntime stays true, getFirebaseRuntime
\* does not throw), so a task started after that is never answered that way.
C39_UnavailableWithoutRuntime ==
    /\ []UnavailableOnly
    /\ [](\A r \in Requests :
            (monitor = "agent" /\ task[r].pc # "none" /\ task[r].hadRuntime) =>
                \A i \in Posts(r) : effects[r][i].body # UnavailableContent)
    /\ [][runtime => runtime']_vars

\* One trigger was processed before the runtime was set and its one
\* delivery failed; the runtime is set now and the next trigger is being
\* dispatched.
C39_Witness ==
    \E a, b \in Requests :
        /\ StartedWithoutRuntime(a)
        /\ task[a].outcome = "DeliveryFailed"
        /\ Cardinality(Posts(a)) = 1
        /\ runtime
        /\ task[b].hadRuntime
        /\ task[b].pc = "dispatching"


\* The prior turns a trigger gives: the elements of its conversationHistory,
\* none when the member is absent, null or an empty array.
PriorTurns(r) ==
    LET given == GetProp(BodyOf(r), KeyConversationHistory) IN
    IF given.t = "array" THEN given.v ELSE <<>>

\* conversationHistory of trigger r is absent, null or an array of turns.
TurnsOrNone(r) ==
    GetProp(BodyOf(r), KeyConversationHistory).t \in {"undefined", "null", "array"}

\* The completion request g of trigger r carries the prior turns in their
\* order and after them one turn, of role user, with the trigger's text.
PriorTurnsThenUserTurn(r, g) ==
    LET messages == effects[r][g].messages
        prior == PriorTurns(r)
        last == messages[Len(messages)]
    IN  /\ Len(messages) = Len(prior) + 1
        /\ \A i \in 1..Len(prior) : messages[i] = prior[i]
        /\ last.t = "object"
        /\ Len(last.v) = 2
        /\ GetProp(last, KeyRole) = JsString(RoleUser)
        /\ GetProp(last, KeyContent) = GetProp(BodyOf(r), KeyText)

\* C40: the completion request built for a trigger contains the prior turns
\* in their original order followed by exactly one new turn, with role user
\* and the trigger's text, as the last element; when no prior turns are given
\* the request contains that single turn only.
C40_PriorTurnsThenNewTurn ==
    \A r \in Requests :
        (monitor = "direct" /\ TurnsOrNone(r)) =>
            \A g \in GenerationCalls(r) :
                /\ PriorTurnsThenUserTurn(r, g)
                /\ PriorTurns(r) = <<>> => Len(effects[r][g].messages) = 1

\* A trigger with two prior turns, of the user and of the assistant, has
\* sent its completion request: three turns, the new one last.
C40_Witness ==
    \E r \in Requests :
        /\ monitor = "direct"
        /\ Len(PriorTurns(r)) = 2
        /\ GetProp(PriorTurns(r)[1], KeyRole) = JsString(RoleUser)
        /\ GetProp(PriorTurns(r)[2], KeyRole) = JsString(RoleAssistant)
        /\ \E g \in GenerationCalls(r) :
              /\ Len(effects[r][g].messages) = 3
              /\ GetProp(effects[r][g].messages[3], KeyContent) = JsString(TextHi)

\* A trigger without conversationHistory, one with null and one with an
\* empty array have sent a request of the single new turn.
C40_SingleTurnAbsent ==
    \E r \in Requests :
        /\ monitor = "direct"
        /\ GetProp(BodyOf(r), KeyConversationHistory).t = "undefined"
        /\ \E g \in GenerationCalls(r) : Len(effects[r][g].messages) = 1

C40_SingleTurnNull ==
    \E r \in Requests :
        /\ monitor = "direct"
        /\ GetProp(BodyOf(r), KeyConversationHistory).t = "null"
        /\ \E g \in GenerationCalls(r) : Len(effects[r][g].messages) = 1

C40_SingleTurnEmpty ==
    \E r \in Requests :
        /\ monitor = "direct"
        /\ GetProp(BodyOf(r), KeyConversationHistory) = JsArray(<<>>)
        /\ \E g \in GenerationCalls(r) : Len(effects[r][g].messages) = 1

\* Every trigger of the direct version that passed the handler's checks
\* sends one completion request at most, and none when its
\* conversationHistory cannot be spread.
C40_OneRequest ==
    \A r \in Requests :
        monitor = "direct" =>
            /\ Cardinality(GenerationCalls(r)) <= 1
            /\ (GenerationCalls(r) # {}
                   /\ ~TurnsOrNone(r)) =>
                  GetProp(BodyOf(r), KeyConversationHistory).t = "string"

=============================================================================
